---- MODULE Spec2Model ----
(***************************************************************************)
(* hyprpy: the event socket, the Signal observer list, the payload         *)
(* decoders of InstanceSignalCollection and the Instance.watch pump.       *)
(*                                                                         *)
(* Text is a sequence of lexemes.  The separators "\n", ">>" and "," are   *)
(* lexemes of their own; every other lexeme (an event name, an address, a  *)
(* word of a title, a numeral) is separator-free.  str.split, str.rsplit   *)
(* and int() are modelled on such sequences.                               *)
(***************************************************************************)
EXTENDS Integers, Sequences, FiniteSets, TLC

VARIABLES
    observers,   \* Signal._observers of every signal, in connection order
    socket,      \* EventSocket._socket: "None", "unconnected", "connected", or
                 \* "peer_closed" when it is connected and the peer has closed its end
    pc,          \* where the caller's thread stands
    exc,         \* the exception that is propagating, or "none"
    inbox,       \* lines received by the event socket and not yet read
    lines,       \* the lines of the drained buffer that is being handled
    cur,         \* the index in lines of the line being handled, 0 when none
    emitting,    \* the frame of the latest Signal.emit: signal, keyword data,
                 \* iterator index, caller, and the observer list at its entry;
                 \* forgotten, with the log, at the user's next connect or disconnect
    lineNo,      \* how many lines watch has begun to handle
    sends,       \* how many lines the compositor has written
    log,         \* the decoder runs and observer calls, in order
    result,      \* the latest call made by the user, its callback and the exception it raised
    hyprland,    \* the compositor: the workspace of every window, the monitor of every workspace
    held,        \* the component object the user holds, or NoComponent
    accesses,    \* how many relational properties the user has read
    threads      \* the send_command calls of two threads on one CommandSocket: where
                 \* each stands, what it raised or received, and the requests and the
                 \* reply on the connection of the socket object now in _socket

vars == <<observers, socket, pc, exc, inbox, lines, cur, emitting, lineNo, sends, log, result,
          hyprland, held, accesses, threads>>

-----------------------------------------------------------------------------
(* Bounds *)

MaxObservers == 2      \* registrations made before watch is called (Spec)
MaxSends == 2          \* lines the compositor writes during a watch session (Spec)
MaxExitObservers == 2  \* registrations made before watch is called (SpecExit)
MaxExitSends == 2      \* lines the compositor writes (SpecExit)
MaxSocketCalls == 3    \* calls the user makes on a socket (SpecSocket)
MaxDecodeSends == 1    \* lines the compositor writes (SpecDecode)
MaxDecodeObservers == 1  \* registrations made before watch is called (SpecDecode)
MaxWrites == 2         \* writes of the compositor during a watch session (SpecStream)
MaxQueries == 3        \* commands the user's calls send to the command socket (SpecLookup)
MaxRegistrations == 3  \* length of one observer list (SpecSignal)

-----------------------------------------------------------------------------
(* Text *)

NL == "\n"
DELIM == ">>"
COMMA == ","


\* the least index of sep in s, 0 when absent
IndexOf(s, sep) ==
    IF \E i \in 1..Len(s) : s[i] = sep
    THEN CHOOSE i \in 1..Len(s) : s[i] = sep /\ \A j \in 1..(i-1) : s[j] # sep
    ELSE 0

\* the greatest index of sep in s, 0 when absent
LastIndexOf(s, sep) ==
    IF \E i \in 1..Len(s) : s[i] = sep
    THEN CHOOSE i \in 1..Len(s) : s[i] = sep /\ \A j \in (i+1)..Len(s) : s[j] # sep
    ELSE 0

\* s.split(sep, maxsplit): the list of fields; maxsplit = -1 splits everywhere
RECURSIVE split(_, _, _)
split(s, sep, maxsplit) ==
    LET i == IndexOf(s, sep) IN
    IF maxsplit = 0 \/ i = 0
    THEN << s >>
    ELSE << SubSeq(s, 1, i - 1) >>
         \o split(SubSeq(s, i + 1, Len(s)), sep, IF maxsplit < 0 THEN maxsplit ELSE maxsplit - 1)

\* s.rsplit(sep, maxsplit=1)
rsplit1(s, sep) ==
    LET i == LastIndexOf(s, sep) IN
    IF i = 0 THEN << s >>
    ELSE << SubSeq(s, 1, i - 1), SubSeq(s, i + 1, Len(s)) >>

\* the numerals int() accepts, with their values
Numerals == ("-99" :> (0 - 99)) @@ ("-1" :> (0 - 1)) @@ ("0" :> 0) @@ ("1" :> 1) @@ ("2" :> 2) @@ ("3" :> 3)

\* int(s) returns (TRUE) or raises ValueError (FALSE)
IsInt(s) == Len(s) = 1 /\ s[1] \in DOMAIN Numerals

\* int(s), where it returns
IntOf(s) == Numerals[s[1]]

\* list(filter(lambda line: len(line) > 0, data.split('\n')))
SplitLines(data) == SelectSeq(split(data, NL, 0 - 1), LAMBDA l : Len(l) > 0)

-----------------------------------------------------------------------------
(* Values of signal data.  The tag t is compared first. *)

StrV(s) == [t |-> "str", v |-> s]
IntV(n) == [t |-> "int", v |-> n]
BoolV(b) == [t |-> "bool", v |-> b]
ListV(l) == [t |-> "list", v |-> l]
NoneV == [t |-> "None", v |-> << >>]

\* x or None, for a str x
\* the value without "or None"
OrNone_Keep(s) == StrV(s)

OrNone(s) == IF s = << >> THEN NoneV ELSE StrV(s)

\* what a parser or a conversion gives: the keyword data, or the exception raised
Ok(kw) == [ok |-> TRUE, kw |-> kw]
Raises(e) == [ok |-> FALSE, kw |-> e]

-----------------------------------------------------------------------------
(* The payload decoders of InstanceSignalCollection.  A tuple assignment   *)
(* a, b = ... raises ValueError unless the list has exactly as many items; *)
(* int() raises ValueError on a non-numeral.                               *)

\* name, rest = data.split(",", maxsplit=1) followed by a record of two strings
TwoStrings(data, first, second) ==
    LET f == split(data, COMMA, 1) IN
    IF Len(f) # 2 THEN Raises("ValueError")
    ELSE Ok((first :> StrV(f[1])) @@ (second :> StrV(f[2])))

\* id, name = data.split(",", maxsplit=1) with int(id)
IdThenString(data, first, second) ==
    LET f == split(data, COMMA, 1) IN
    IF Len(f) # 2 \/ ~IsInt(f[1]) THEN Raises("ValueError")
    ELSE Ok((first :> IntV(IntOf(f[1]))) @@ (second :> StrV(f[2])))

\* address, flag = data.split(",") with bool(int(flag))
AddressThenFlag(data, second) ==
    LET f == split(data, COMMA, 0 - 1) IN
    IF Len(f) # 2 \/ ~IsInt(f[2]) THEN Raises("ValueError")
    ELSE Ok(("window_address" :> StrV(f[1])) @@ (second :> BoolV(IntOf(f[2]) # 0)))

\* bool(int(data))
OneFlag(data, field) ==
    IF ~IsInt(data) THEN Raises("ValueError")
    ELSE Ok(field :> BoolV(IntOf(data) # 0))

\* the whole payload as one string
OneString(data, field) == Ok(field :> StrV(data))

_parse_activelayout(data) == TwoStrings(data, "keyboard_name", "layout_name")

_parse_activespecial(data) ==
    LET f == split(data, COMMA, 1) IN
    IF Len(f) # 2 THEN Raises("ValueError")
    ELSE Ok(("workspace_name" :> OrNone(f[1])) @@ ("monitor_name" :> StrV(f[2])))

_parse_activespecialv2(data) ==
    LET f == split(data, COMMA, 2) IN
    IF Len(f) # 3 THEN Raises("ValueError")
    ELSE IF f[1] # << >> /\ ~IsInt(f[1]) THEN Raises("ValueError")
    ELSE Ok(("workspace_id" :> (IF f[1] # << >> THEN IntV(IntOf(f[1])) ELSE NoneV))
            @@ ("workspace_name" :> OrNone(f[2]))
            @@ ("monitor_name" :> StrV(f[3])))

_parse_activewindow(data) == TwoStrings(data, "window_class", "window_title")

_parse_activewindowv2(data) == OneString(data, "window_address")

_parse_changefloatingmode(data) == AddressThenFlag(data, "is_floating")

_parse_closelayer(data) == OneString(data, "namespace")

_parse_closewindow(data) == OneString(data, "window_address")

_parse_configreloaded(data) == Ok(<< >>)

_parse_createworkspace(data) == OneString(data, "workspace_name")

_parse_createworkspacev2(data) == IdThenString(data, "workspace_id", "workspace_name")

_parse_destroyworkspace(data) == OneString(data, "workspace_name")

_parse_destroyworkspacev2(data) == IdThenString(data, "workspace_id", "workspace_name")

_parse_focusedmon(data) == TwoStrings(data, "monitor_name", "workspace_name")

_parse_focusedmonv2(data) ==
    LET f == rsplit1(data, COMMA) IN
    IF Len(f) # 2 \/ ~IsInt(f[2]) THEN Raises("ValueError")
    ELSE Ok(("monitor_name" :> StrV(f[1])) @@ ("workspace_id" :> IntV(IntOf(f[2]))))

_parse_fullscreen(data) == OneFlag(data, "is_fullscreen")

_parse_ignoregrouplock(data) == OneFlag(data, "ignore_group_lock_enabled")

_parse_lockgroups(data) == OneFlag(data, "lock_groups_enabled")

_parse_minimized(data) == AddressThenFlag(data, "is_minimized")

_parse_monitoradded(data) == OneString(data, "monitor_name")

_parse_monitoraddedv2(data) ==
    LET f == split(data, COMMA, 2) IN
    IF Len(f) # 3 \/ ~IsInt(f[1]) THEN Raises("ValueError")
    ELSE Ok(("monitor_id" :> IntV(IntOf(f[1])))
            @@ ("monitor_name" :> StrV(f[2]))
            @@ ("monitor_description" :> StrV(f[3])))

_parse_monitorremoved(data) == OneString(data, "monitor_name")

_parse_moveintogroup(data) == OneString(data, "window_address")

_parse_moveoutofgroup(data) == OneString(data, "window_address")

_parse_movewindow(data) == TwoStrings(data, "window_address", "workspace_name")

_parse_movewindowv2(data) ==
    LET f == split(data, COMMA, 1) IN
    IF Len(f) # 2 THEN Raises("ValueError")
    ELSE LET g == rsplit1(f[2], COMMA) IN
         IF Len(g) # 2 \/ ~IsInt(g[1]) THEN Raises("ValueError")
         ELSE Ok(("window_address" :> StrV(f[1]))
                 @@ ("workspace_id" :> IntV(IntOf(g[1])))
                 @@ ("workspace_name" :> StrV(g[2])))

_parse_moveworkspace(data) ==
    LET f == rsplit1(data, COMMA) IN
    IF Len(f) # 2 THEN Raises("ValueError")
    ELSE Ok(("workspace_name" :> StrV(f[1])) @@ ("monitor_name" :> StrV(f[2])))

_parse_moveworkspacev2(data) ==
    LET f == split(data, COMMA, 1) IN
    IF Len(f) # 2 THEN Raises("ValueError")
    ELSE LET g == rsplit1(f[2], COMMA) IN
         IF Len(g) # 2 \/ ~IsInt(f[1]) THEN Raises("ValueError")
         ELSE Ok(("workspace_id" :> IntV(IntOf(f[1])))
                 @@ ("workspace_name" :> StrV(g[1]))
                 @@ ("monitor_name" :> StrV(g[2])))

_parse_openlayer(data) == OneString(data, "namespace")

\* the payload split at every comma, the fourth field taken for the title
_parse_openwindow_SplitAll(data) ==
    LET f == split(data, COMMA, 0 - 1) IN
    IF Len(f) < 4 THEN Raises("ValueError")
    ELSE Ok(("window_address" :> StrV(f[1]))
            @@ ("workspace_name" :> StrV(f[2]))
            @@ ("window_class" :> StrV(f[3]))
            @@ ("window_title" :> StrV(f[4])))

_parse_openwindow(data) ==
    LET f == split(data, COMMA, 3) IN
    IF Len(f) # 4 THEN Raises("ValueError")
    ELSE Ok(("window_address" :> StrV(f[1]))
            @@ ("workspace_name" :> StrV(f[2]))
            @@ ("window_class" :> StrV(f[3]))
            @@ ("window_title" :> StrV(f[4])))

_parse_pin(data) == AddressThenFlag(data, "is_pinned")

_parse_renameworkspace(data) == IdThenString(data, "workspace_id", "new_name")

_parse_screencast(data) ==
    LET f == split(data, COMMA, 0 - 1) IN
    IF Len(f) # 2 \/ ~IsInt(f[2]) \/ ~IsInt(f[1]) THEN Raises("ValueError")
    ELSE Ok(("screencast_enabled" :> BoolV(IntOf(f[1]) # 0))
            @@ ("screencast_type" :> StrV(IF IntOf(f[2]) = 0 THEN << "MONITOR" >> ELSE << "WINDOW" >>)))

_parse_submap(data) == Ok("submap_name" :> OrNone(data))

_parse_togglegroup(data) ==
    LET f == split(data, COMMA, 1) IN
    IF Len(f) # 2 \/ ~IsInt(f[1]) THEN Raises("ValueError")
    ELSE Ok(("group_is_active" :> BoolV(IntOf(f[1]) # 0))
            @@ ("window_addresses" :> ListV(split(f[2], COMMA, 0 - 1))))

_parse_urgent(data) == OneString(data, "window_address")

_parse_windowtitle(data) == OneString(data, "window_address")

_parse_windowtitlev2(data) == TwoStrings(data, "window_address", "window_title")

_parse_workspace(data) == OneString(data, "workspace_name")

_parse_workspacev2(data) ==
    LET f == rsplit1(data, COMMA) IN
    IF Len(f) # 2 \/ ~IsInt(f[1]) THEN Raises("ValueError")
    ELSE Ok(("workspace_name" :> StrV(f[2])) @@ ("workspace_id" :> IntV(IntOf(f[1]))))

\* the attributes of InstanceSignalCollection that are signals
SignalNames == {
    "activelayout", "activespecial", "activespecialv2", "activewindow", "activewindowv2",
    "changefloatingmode", "closelayer", "closewindow", "configreloaded", "createworkspace",
    "createworkspacev2", "destroyworkspace", "destroyworkspacev2", "focusedmon",
    "focusedmonv2", "fullscreen", "ignoregrouplock", "lockgroups", "minimized",
    "monitoradded", "monitoraddedv2", "monitorremoved", "moveintogroup", "moveoutofgroup",
    "movewindow", "movewindowv2", "moveworkspace", "moveworkspacev2", "openlayer",
    "openwindow", "pin", "renameworkspace", "screencast", "submap", "togglegroup",
    "urgent", "windowtitle", "windowtitlev2", "workspace", "workspacev2" }

\* getattr(self, f"_parse_{event_name}")(event_data)
Parser(event_name, data) ==
    CASE event_name = "activelayout" -> _parse_activelayout(data)
      [] event_name = "activespecial" -> _parse_activespecial(data)
      [] event_name = "activespecialv2" -> _parse_activespecialv2(data)
      [] event_name = "activewindow" -> _parse_activewindow(data)
      [] event_name = "activewindowv2" -> _parse_activewindowv2(data)
      [] event_name = "changefloatingmode" -> _parse_changefloatingmode(data)
      [] event_name = "closelayer" -> _parse_closelayer(data)
      [] event_name = "closewindow" -> _parse_closewindow(data)
      [] event_name = "configreloaded" -> _parse_configreloaded(data)
      [] event_name = "createworkspace" -> _parse_createworkspace(data)
      [] event_name = "createworkspacev2" -> _parse_createworkspacev2(data)
      [] event_name = "destroyworkspace" -> _parse_destroyworkspace(data)
      [] event_name = "destroyworkspacev2" -> _parse_destroyworkspacev2(data)
      [] event_name = "focusedmon" -> _parse_focusedmon(data)
      [] event_name = "focusedmonv2" -> _parse_focusedmonv2(data)
      [] event_name = "fullscreen" -> _parse_fullscreen(data)
      [] event_name = "ignoregrouplock" -> _parse_ignoregrouplock(data)
      [] event_name = "lockgroups" -> _parse_lockgroups(data)
      [] event_name = "minimized" -> _parse_minimized(data)
      [] event_name = "monitoradded" -> _parse_monitoradded(data)
      [] event_name = "monitoraddedv2" -> _parse_monitoraddedv2(data)
      [] event_name = "monitorremoved" -> _parse_monitorremoved(data)
      [] event_name = "moveintogroup" -> _parse_moveintogroup(data)
      [] event_name = "moveoutofgroup" -> _parse_moveoutofgroup(data)
      [] event_name = "movewindow" -> _parse_movewindow(data)
      [] event_name = "movewindowv2" -> _parse_movewindowv2(data)
      [] event_name = "moveworkspace" -> _parse_moveworkspace(data)
      [] event_name = "moveworkspacev2" -> _parse_moveworkspacev2(data)
      [] event_name = "openlayer" -> _parse_openlayer(data)
      [] event_name = "openwindow" -> _parse_openwindow(data)
      [] event_name = "pin" -> _parse_pin(data)
      [] event_name = "renameworkspace" -> _parse_renameworkspace(data)
      [] event_name = "screencast" -> _parse_screencast(data)
      [] event_name = "submap" -> _parse_submap(data)
      [] event_name = "togglegroup" -> _parse_togglegroup(data)
      [] event_name = "urgent" -> _parse_urgent(data)
      [] event_name = "windowtitle" -> _parse_windowtitle(data)
      [] event_name = "windowtitlev2" -> _parse_windowtitlev2(data)
      [] event_name = "workspace" -> _parse_workspace(data)
      [] event_name = "workspacev2" -> _parse_workspacev2(data)

-----------------------------------------------------------------------------
(* Signals, their senders and the callbacks a user may hand to connect *)

\* the DeprecatedSignal attributes of Instance
DeprecatedSignalNames == {
    "signal_workspace_created", "signal_workspace_destroyed",
    "signal_active_workspace_changed", "signal_window_created",
    "signal_window_destroyed", "signal_active_window_changed" }

AllSignals == SignalNames \cup DeprecatedSignalNames

\* Signal._sender, set by the constructor call that creates the signal
SenderOf(sig) ==
    IF sig \in DeprecatedSignalNames THEN "Instance" ELSE "InstanceSignalCollection"

\* Callbacks: whether callable(cb), the names of inspect.signature(cb).parameters,
\* whether one of them is **kwargs, and what the body does when called.
CallbackTable ==
    [ a            |-> [callable |-> TRUE,  params |-> << "sender", "kwargs" >>, var_keyword |-> TRUE,  does |-> "return"],
      b            |-> [callable |-> TRUE,  params |-> << "sender", "kwargs" >>, var_keyword |-> TRUE,  does |-> "return"],
      raiser       |-> [callable |-> TRUE,  params |-> << "sender", "kwargs" >>, var_keyword |-> TRUE,  does |-> "raise"],
      closer       |-> [callable |-> TRUE,  params |-> << "sender", "kwargs" >>, var_keyword |-> TRUE,  does |-> "close"],
      leaver       |-> [callable |-> TRUE,  params |-> << "sender", "kwargs" >>, var_keyword |-> TRUE,  does |-> "disconnect"],
      joiner       |-> [callable |-> TRUE,  params |-> << "sender", "kwargs" >>, var_keyword |-> TRUE,  does |-> "connect"],
      rejoiner     |-> [callable |-> TRUE,  params |-> << "sender", "kwargs" >>, var_keyword |-> TRUE,  does |-> "reconnect"],
      not_callable |-> [callable |-> FALSE, params |-> << >>,                    var_keyword |-> FALSE, does |-> "return"],
      no_params    |-> [callable |-> TRUE,  params |-> << >>,                    var_keyword |-> FALSE, does |-> "return"],
      no_sender    |-> [callable |-> TRUE,  params |-> << "event", "kwargs" >>,  var_keyword |-> TRUE,  does |-> "return"],
      no_kwargs    |-> [callable |-> TRUE,  params |-> << "sender" >>,           var_keyword |-> FALSE, does |-> "return"] ]

Callbacks == DOMAIN CallbackTable

\* the exception assert_is_callable raises, or "none"
assert_is_callable(value) ==
    IF ~CallbackTable[value].callable THEN "TypeError" ELSE "none"

assert_is_callable_and_has_first_param_sender(value) ==
    LET params == CallbackTable[value].params IN
    IF assert_is_callable(value) # "none" THEN assert_is_callable(value)
    ELSE IF Len(params) = 0 \/ params[1] # "sender" THEN "ValueError"
    ELSE "none"

\* the **kwargs check left out
assert_is_callable_and_accepts_kwargs_Unchecked(value) == assert_is_callable(value)

assert_is_callable_and_accepts_kwargs(value) ==
    IF assert_is_callable(value) # "none" THEN assert_is_callable(value)
    ELSE IF ~CallbackTable[value].var_keyword THEN "ValueError"
    ELSE "none"

-----------------------------------------------------------------------------
(* AbstractSocket: the operations watch uses on the event socket *)

\* AbstractSocket.connect; established: whether socket.connect() succeeds
socket_connect(sock, established) ==
    IF sock # "None" THEN [raised |-> "SocketError", socket |-> sock]
    ELSE IF established THEN [raised |-> "none", socket |-> "connected"]
    ELSE [raised |-> "OSError", socket |-> "unconnected"]

\* close() that does not reset self._socket
socket_close_Leak(sock) ==
    IF sock = "None" THEN [raised |-> "SocketError", socket |-> sock]
    ELSE [raised |-> "none", socket |-> sock]

\* AbstractSocket.close
socket_close(sock) ==
    IF sock = "None" THEN [raised |-> "SocketError", socket |-> sock]
    ELSE [raised |-> "none", socket |-> "None"]

\* a wait without the check that the socket is connected
socket_wait_Unguarded(sock, ready) == IF ~ready THEN "SocketError" ELSE "none"

\* a wait that takes an empty result of select for success
socket_wait_NoTimeout(sock, ready) == IF sock = "None" THEN "SocketError" ELSE "none"

\* AbstractSocket.wait(timeout); ready: whether select reports the socket readable
socket_wait(sock, ready) ==
    IF sock = "None" THEN "SocketError"
    ELSE IF ~ready THEN "SocketError"
    ELSE "none"

\* AbstractSocket.read; received: whether every recv returns data or would-block
socket_read(sock, received) ==
    IF sock = "None" THEN "SocketError"
    ELSE IF sock = "unconnected" \/ ~received THEN "OSError"
    ELSE "none"

\* AbstractSocket.send; delivered: whether sendall() succeeds
socket_send(sock, delivered) ==
    IF sock = "None" THEN "SocketError"
    ELSE IF sock = "unconnected" \/ ~delivered THEN "OSError"
    ELSE "none"

\* assert_is_nonempty_string on a str
assert_is_nonempty_string(value) == IF value = "" THEN "ValueError" ELSE "none"

\* CommandSocket.send_command: connect, send, wait(0.5), read, close, in a row
send_command(sock, command, established, delivered, ready, received) ==
    LET c == socket_connect(sock, established) IN
    IF assert_is_nonempty_string(command) # "none"
    THEN [raised |-> assert_is_nonempty_string(command), socket |-> sock]
    ELSE IF c.raised # "none" THEN c
    ELSE IF socket_send(c.socket, delivered) # "none"
    THEN [raised |-> socket_send(c.socket, delivered), socket |-> c.socket]
    ELSE IF socket_wait(c.socket, ready) # "none"
    THEN [raised |-> socket_wait(c.socket, ready), socket |-> c.socket]
    ELSE IF socket_read(c.socket, received) # "none"
    THEN [raised |-> socket_read(c.socket, received), socket |-> c.socket]
    ELSE socket_close(c.socket)

\* a call the user made on a socket: the operation, its input, the exception
\* it raised and _socket before and after
SocketCall(op, input, raised, before, after) ==
    [op |-> op, input |-> input, raised |-> raised, before |-> before, after |-> after]

\* the bookkeeping of a call the user makes on a socket
UserSocketCall(op, input, raised, after) ==
    /\ pc = "idle"
    /\ socket' = after
    /\ log' = Append(log, SocketCall(op, input, raised, socket, after))
    /\ sends' = sends + 1
    /\ result' = [op |-> op, cb |-> "", raised |-> raised]
    /\ UNCHANGED <<observers, pc, exc, inbox, lines, cur, emitting, lineNo, hyprland, held, accesses, threads>>

SocketConnect(established) ==
    UserSocketCall("connect", established, socket_connect(socket, established).raised,
                   socket_connect(socket, established).socket)

SocketClose ==
    UserSocketCall("close", TRUE, socket_close(socket).raised, socket_close(socket).socket)

SocketSend(delivered) ==
    UserSocketCall("send", delivered, socket_send(socket, delivered), socket)

SocketWait(ready) ==
    UserSocketCall("wait", ready, socket_wait(socket, ready), socket)

SocketRead(received) ==
    UserSocketCall("read", received, socket_read(socket, received), socket)

\* the user calls send_command: whether the connection is established, the
\* request is sent, a reply arrives in time and is received is the environment's
SendCommand(command, established, delivered, ready, received) ==
    LET r == send_command(socket, command, established, delivered, ready, received) IN
    UserSocketCall("send_command", command, r.raised, r.socket)

-----------------------------------------------------------------------------
(* Signal: connect, disconnect, emit *)

\* Signal.connect on the observer list obs: the exception raised and the list left
connect(obs, callback) ==
    IF assert_is_callable_and_has_first_param_sender(callback) # "none"
    THEN [raised |-> assert_is_callable_and_has_first_param_sender(callback), observers |-> obs]
    ELSE IF assert_is_callable_and_accepts_kwargs(callback) # "none"
    THEN [raised |-> assert_is_callable_and_accepts_kwargs(callback), observers |-> obs]
    ELSE [raised |-> "none", observers |-> Append(obs, callback)]

\* the latest registration taken out instead of the earliest
disconnect_Last(obs, callback) ==
    LET i == LastIndexOf(obs, callback) IN
    IF i = 0 THEN [raised |-> "ValueError", observers |-> obs]
    ELSE [raised |-> "none", observers |-> SubSeq(obs, 1, i - 1) \o SubSeq(obs, i + 1, Len(obs))]

\* Signal.disconnect: list.remove drops the first equal item or raises ValueError
disconnect(obs, callback) ==
    LET i == IndexOf(obs, callback) IN
    IF i = 0 THEN [raised |-> "ValueError", observers |-> obs]
    ELSE [raised |-> "none", observers |-> SubSeq(obs, 1, i - 1) \o SubSeq(obs, i + 1, Len(obs))]

NoEmit == [sig |-> "", kw |-> << >>, idx |-> 0, caller |-> "", start |-> << >>]

NoCall == [op |-> "none", cb |-> "", raised |-> "none"]

\* the frame Signal.emit starts with: the for loop iterates over the live list
EmitFrame(sig, kw, caller) ==
    [sig |-> sig, kw |-> kw, idx |-> 1, caller |-> caller, start |-> observers[sig]]

\* emit of the deprecated signal returns to the end of the line's handling
AfterEmit_PastSignals(caller) ==
    CASE caller = "user" -> "idle"
      [] caller = "deprecated" -> "next"
      [] caller = "signals" -> "next"

\* where control goes when emit returns to its caller
AfterEmit(caller) ==
    CASE caller = "user" -> "idle"
      [] caller = "deprecated" -> "signals"
      [] caller = "signals" -> "next"

\* where control goes when an exception leaves emit: emit has no handler, and in
\* watch the nearest one is the finally clause
AfterRaise(caller) == IF caller = "user" THEN "idle" ELSE "finally"

\* log entries: an observer call, and a run of a payload decoder
Call(sig, cb, kw, n) ==
    [op |-> "call", sig |-> sig, cb |-> cb, sender |-> SenderOf(sig),
     kw |-> kw, line |-> n, ok |-> TRUE]

Decode(sig, res, n) ==
    [op |-> "decode", sig |-> sig, cb |-> "", sender |-> "",
     kw |-> << >>, line |-> n, ok |-> res.ok]

\* the item the iterator of "for callback in self._observers" yields in round i
IterItem_Reversed(obs, i) == obs[Len(obs) + 1 - i]

IterItem(obs, i) == obs[i]

\* a try/except around the call that swallows the observer's exception
CallbackRaises_Swallowed(cb, obs, sock) == FALSE

\* whether the call callback(self._sender, **kwargs) ends with an exception,
\* which emit lets through
CallbackRaises(cb, obs, sock) ==
    LET does == CallbackTable[cb].does IN
    \/ does = "raise"
    \/ does = "close" /\ socket_close(sock).raised # "none"
    \/ does = "disconnect" /\ disconnect(obs, cb).raised # "none"

\* one round of "for callback in self._observers: callback(self._sender, **kwargs)"
EmitStep ==
    /\ pc = "emit"
    /\ LET sig == emitting.sig
           obs == observers[sig]
           i == emitting.idx
           user == emitting.caller = "user"
       IN
       IF i > Len(obs)
       THEN \* the iterator is exhausted: emit returns
            /\ pc' = AfterEmit(emitting.caller)
            /\ result' = IF user THEN [result EXCEPT !.raised = "none"] ELSE result
            /\ UNCHANGED <<observers, socket, exc, log, emitting>>
       ELSE LET cb == IterItem(obs, i)
                does == CallbackTable[cb].does
            IN
            /\ does \in { "connect", "reconnect" } => Len(obs) < MaxRegistrations
            /\ log' = Append(log, Call(sig, cb, emitting.kw, lineNo))
            /\ observers' =
                 CASE does = "disconnect" -> [observers EXCEPT ![sig] = disconnect(obs, cb).observers]
                   [] does = "connect" -> [observers EXCEPT ![sig] = connect(obs, "b").observers]
                   [] does = "reconnect" -> [observers EXCEPT ![sig] = connect(obs, cb).observers]
                   [] OTHER -> observers
            /\ socket' = IF does = "close" THEN socket_close(socket).socket ELSE socket
            /\ IF CallbackRaises(cb, obs, socket)
               THEN /\ pc' = AfterRaise(emitting.caller)
                    /\ exc' = IF user THEN exc ELSE "ObserverError"
                    /\ result' = IF user THEN [result EXCEPT !.raised = "ObserverError"] ELSE result
                    /\ UNCHANGED emitting
               ELSE /\ pc' = pc
                    /\ emitting' = [emitting EXCEPT !.idx = i + 1]
                    /\ UNCHANGED <<exc, result>>
    /\ UNCHANGED <<inbox, lines, cur, lineNo, sends, hyprland, held, accesses, threads>>

\* the user calls signal.connect(callback)
Connect(sig, callback) ==
    /\ pc = "idle"
    /\ observers' = [observers EXCEPT ![sig] = connect(observers[sig], callback).observers]
    /\ result' = [op |-> "connect", cb |-> callback, raised |-> connect(observers[sig], callback).raised]
    /\ emitting' = NoEmit
    /\ log' = << >>
    /\ UNCHANGED <<socket, pc, exc, inbox, lines, cur, lineNo, sends, hyprland, held, accesses, threads>>

\* the user calls signal.disconnect(callback)
Disconnect(sig, callback) ==
    /\ pc = "idle"
    /\ observers' = [observers EXCEPT ![sig] = disconnect(observers[sig], callback).observers]
    /\ result' = [op |-> "disconnect", cb |-> callback, raised |-> disconnect(observers[sig], callback).raised]
    /\ emitting' = NoEmit
    /\ log' = << >>
    /\ UNCHANGED <<socket, pc, exc, inbox, lines, cur, lineNo, sends, hyprland, held, accesses, threads>>

\* the user calls signal.emit(**kw)
Emit(sig, kw) ==
    /\ pc = "idle"
    /\ emitting' = EmitFrame(sig, kw, "user")
    /\ pc' = "emit"
    /\ log' = << >>
    /\ result' = [op |-> "emit", cb |-> "", raised |-> "pending"]
    /\ UNCHANGED <<observers, socket, exc, inbox, lines, cur, lineNo, sends, hyprland, held, accesses, threads>>

-----------------------------------------------------------------------------
(* Instance.watch *)

_deprecated_signal_for_event ==
    ("openwindow" :> "signal_window_created")
    @@ ("closewindow" :> "signal_window_destroyed")
    @@ ("activewindowv2" :> "signal_active_window_changed")
    @@ ("createworkspace" :> "signal_workspace_created")
    @@ ("destroyworkspace" :> "signal_workspace_destroyed")
    @@ ("workspace" :> "signal_active_workspace_changed")

\* the conversion without the test for the special workspace
WorkspaceIdOf_NoSentinel(event_data, field) ==
    IF IsInt(event_data) THEN Ok(field :> IntV(IntOf(event_data)))
    ELSE Raises("ValueError")

\* int(event_data) if event_data not in ['special', 'special:special'] else -99
WorkspaceIdOf(event_data, field) ==
    IF event_data \in { << "special" >>, << "special:special" >> } THEN Ok(field :> IntV(0 - 99))
    ELSE IF IsInt(event_data) THEN Ok(field :> IntV(IntOf(event_data)))
    ELSE Raises("ValueError")

\* the keyword data _deprecated_handle_socket_data computes for signal.emit
DeprecatedData(event_name, event_data) ==
    CASE event_name = "openwindow" ->
           Ok("created_window_address" :> StrV(split(event_data, COMMA, 0 - 1)[1]))
      [] event_name = "closewindow" ->
           Ok("destroyed_window_address" :> StrV(event_data))
      [] event_name = "activewindowv2" ->
           Ok("active_window_address" :> (IF event_data = << COMMA >> THEN NoneV ELSE StrV(event_data)))
      [] event_name = "createworkspace" -> WorkspaceIdOf(event_data, "created_workspace_id")
      [] event_name = "destroyworkspace" -> WorkspaceIdOf(event_data, "destroyed_workspace_id")
      [] event_name = "workspace" -> WorkspaceIdOf(event_data, "active_workspace_id")

\* an event name as an attribute name: a name of several lexemes names no attribute
AttrName(event_name) == IF Len(event_name) = 1 THEN event_name[1] ELSE ""

\* attributes of InstanceSignalCollection that are not signals
MethodNames == { "_handle_socket_data", "__init__", "__class__", "_parse_openwindow" }

\* getattr(self, event_name) does not raise AttributeError
HasAttr(name) == name \in SignalNames \cup MethodNames

\* getattr(self, f"_parse_{event_name}") does not raise AttributeError
HasParser(name) == name \in SignalNames

\* _deprecated_handle_socket_data up to its emit, for a line split into f:
\* "skip" (no deprecated signal, or no observers), "raise", "emit"
DeprecatedDispatch(f, obs) ==
    LET name == AttrName(f[1])
        sig == _deprecated_signal_for_event[name]
    IN
    IF name \notin DOMAIN _deprecated_signal_for_event
    THEN [what |-> "skip", sig |-> "", res |-> Raises("none")]
    ELSE IF obs[sig] = << >> THEN [what |-> "skip", sig |-> sig, res |-> Raises("none")]
    ELSE IF ~DeprecatedData(name, f[2]).ok
    THEN [what |-> "raise", sig |-> sig, res |-> DeprecatedData(name, f[2])]
    ELSE [what |-> "emit", sig |-> sig, res |-> DeprecatedData(name, f[2])]

\* the line split at its last ">>" instead of its first
Dispatch_SplitLast(line, obs) ==
    LET f == rsplit1(line, DELIM)
        name == AttrName(f[1])
    IN
    IF Len(f) # 2 THEN [what |-> "raise", sig |-> "", res |-> Raises("ValueError")]
    ELSE IF ~HasAttr(name) THEN [what |-> "drop", sig |-> "", res |-> Raises("AttributeError")]
    ELSE IF ~HasParser(name) THEN [what |-> "drop", sig |-> "", res |-> Raises("AttributeError")]
    ELSE IF obs[name] = << >> THEN [what |-> "drop", sig |-> name, res |-> Raises("none")]
    ELSE IF ~Parser(name, f[2]).ok THEN [what |-> "error", sig |-> name, res |-> Parser(name, f[2])]
    ELSE [what |-> "emit", sig |-> name, res |-> Parser(name, f[2])]

\* the parser run before the observers are looked at
Dispatch_Eager(line, obs) ==
    LET f == split(line, DELIM, 1)
        name == AttrName(f[1])
    IN
    IF Len(f) # 2 THEN [what |-> "raise", sig |-> "", res |-> Raises("ValueError")]
    ELSE IF ~HasAttr(name) THEN [what |-> "drop", sig |-> "", res |-> Raises("AttributeError")]
    ELSE IF ~HasParser(name) THEN [what |-> "drop", sig |-> "", res |-> Raises("AttributeError")]
    ELSE IF ~Parser(name, f[2]).ok THEN [what |-> "error", sig |-> name, res |-> Parser(name, f[2])]
    ELSE [what |-> "emit", sig |-> name, res |-> Parser(name, f[2])]

\* getattr outside of a try: the AttributeError of an unknown name leaves the method
Dispatch_Uncaught(line, obs) ==
    LET f == split(line, DELIM, 1)
        name == AttrName(f[1])
    IN
    IF Len(f) # 2 THEN [what |-> "raise", sig |-> "", res |-> Raises("ValueError")]
    ELSE IF ~HasAttr(name) THEN [what |-> "raise", sig |-> "", res |-> Raises("AttributeError")]
    ELSE IF ~HasParser(name) THEN [what |-> "raise", sig |-> "", res |-> Raises("AttributeError")]
    ELSE IF obs[name] = << >> THEN [what |-> "drop", sig |-> name, res |-> Raises("none")]
    ELSE IF ~Parser(name, f[2]).ok THEN [what |-> "error", sig |-> name, res |-> Parser(name, f[2])]
    ELSE [what |-> "emit", sig |-> name, res |-> Parser(name, f[2])]

\* InstanceSignalCollection._handle_socket_data up to its emit:
\* "raise" (the tuple assignment fails), "drop" (unknown event, no observers),
\* "error" (the parser raised, logged), "emit"
Dispatch(line, obs) ==
    LET f == split(line, DELIM, 1)
        name == AttrName(f[1])
    IN
    IF Len(f) # 2 THEN [what |-> "raise", sig |-> "", res |-> Raises("ValueError")]
    ELSE IF ~HasAttr(name) THEN [what |-> "drop", sig |-> "", res |-> Raises("AttributeError")]
    ELSE IF ~HasParser(name) THEN [what |-> "drop", sig |-> "", res |-> Raises("AttributeError")]
    ELSE IF obs[name] = << >> THEN [what |-> "drop", sig |-> name, res |-> Raises("none")]
    ELSE IF ~Parser(name, f[2]).ok THEN [what |-> "error", sig |-> name, res |-> Parser(name, f[2])]
    ELSE [what |-> "emit", sig |-> name, res |-> Parser(name, f[2])]

\* the user calls instance.event_socket.connect() before watch
UserSocketConnect ==
    /\ pc = "idle"
    /\ \E established \in BOOLEAN :
         /\ socket' = socket_connect(socket, established).socket
         /\ result' = [op |-> "socket.connect", cb |-> "",
                       raised |-> socket_connect(socket, established).raised]
    /\ UNCHANGED <<observers, pc, exc, inbox, lines, cur, emitting, lineNo, sends, log, hyprland, held, accesses, threads>>

\* watch is called: try: self.event_socket.connect()
WatchConnect ==
    /\ pc = "idle"
    /\ \E established \in BOOLEAN :
         LET r == socket_connect(socket, established) IN
         /\ socket' = r.socket
         /\ exc' = r.raised
         /\ pc' = IF r.raised = "none" THEN "wait" ELSE "finally"
    /\ result' = [op |-> "watch", cb |-> "", raised |-> "pending"]
    /\ log' = << >>
    /\ UNCHANGED <<observers, inbox, lines, cur, emitting, lineNo, sends, hyprland, held, accesses, threads>>

\* the compositor writes one event line while watch blocks in wait
Send(line) ==
    /\ pc = "wait"
    /\ socket = "connected"
    /\ inbox' = inbox \o line \o << NL >>
    /\ sends' = sends + 1
    /\ UNCHANGED <<observers, socket, pc, exc, lines, cur, emitting, lineNo, log, result, hyprland, held, accesses, threads>>

\* the compositor writes bytes that arrive at the socket together; they need
\* not end where a record ends
Write(data) ==
    /\ pc = "wait"
    /\ socket = "connected"
    /\ inbox' = inbox \o data
    /\ sends' = sends + 1
    /\ UNCHANGED <<observers, socket, pc, exc, lines, cur, emitting, lineNo, log, result, hyprland, held, accesses, threads>>

\* the compositor closes its end of the connection: from then on select reports
\* the socket readable and recv returns b'' once the bytes sent are read
PeerCloses ==
    /\ socket = "connected"
    /\ socket' = "peer_closed"
    /\ UNCHANGED <<observers, pc, exc, inbox, lines, cur, emitting, lineNo, sends, log, result, hyprland, held, accesses, threads>>

\* self.event_socket.wait(): blocks until the socket is readable
Wait ==
    /\ pc = "wait"
    /\ socket \notin { "None", "peer_closed" } => inbox # << >>
    /\ exc' = socket_wait(socket, TRUE)
    /\ pc' = IF socket_wait(socket, TRUE) = "none" THEN "read" ELSE "finally"
    /\ UNCHANGED <<observers, socket, inbox, lines, cur, emitting, lineNo, sends, log, result, hyprland, held, accesses, threads>>

\* data.decode('UTF-8') of the bytes read.  The bytes C3 A9 are the two-byte
\* character e-acute; every other lexeme is ASCII.  A C3 without its A9, or an
\* A9 without its C3, raises UnicodeDecodeError.
decode_utf8(data) ==
    LET valid == \A i \in 1..Len(data) :
                     /\ data[i] = "C3" => (i < Len(data) /\ data[i + 1] = "A9")
                     /\ data[i] = "A9" => (i > 1 /\ data[i - 1] = "C3")
        chars == [i \in 1..Len(data) |-> IF data[i] = "C3" THEN "e-acute" ELSE data[i]]
    IN [raised |-> IF valid THEN "none" ELSE "UnicodeDecodeError",
        text |-> IF valid THEN SelectSeq(chars, LAMBDA c : c # "A9") ELSE << >>]

\* a read that takes the text up to the last newline and leaves the rest of
\* the bytes for the next read
Read_KeepPartial ==
    /\ pc = "read"
    /\ \E received \in BOOLEAN :
         LET e == socket_read(socket, received)
             n == LastIndexOf(inbox, NL)
             data == SplitLines(SubSeq(inbox, 1, n))
         IN
         /\ exc' = e
         /\ lines' = IF e = "none" THEN data ELSE lines
         /\ cur' = IF e = "none" /\ data # << >> THEN 1 ELSE 0
         /\ inbox' = IF e = "none" THEN SubSeq(inbox, n + 1, Len(inbox)) ELSE inbox
         /\ pc' = IF e # "none" THEN "finally"
                  ELSE IF data = << >> THEN "wait" ELSE "line"
    /\ UNCHANGED <<observers, socket, emitting, lineNo, sends, log, result, hyprland, held, accesses, threads>>

\* data = self.event_socket.read(), then the lines of _handle_socket_data(data):
\* the bytes are taken from the socket before they are decoded
Read ==
    /\ pc = "read"
    /\ \E received \in BOOLEAN :
         LET r == socket_read(socket, received)
             e == IF r # "none" THEN r ELSE decode_utf8(inbox).raised
             data == SplitLines(decode_utf8(inbox).text)
         IN
         /\ exc' = e
         /\ lines' = IF e = "none" THEN data ELSE lines
         /\ cur' = IF e = "none" /\ data # << >> THEN 1 ELSE 0
         /\ inbox' = IF r = "none" THEN << >> ELSE inbox
         /\ pc' = IF e # "none" THEN "finally"
                  ELSE IF data = << >> THEN "wait" ELSE "line"
    /\ UNCHANGED <<observers, socket, emitting, lineNo, sends, log, result, hyprland, held, accesses, threads>>

\* the loop body of Instance.watch._handle_socket_data up to the call of
\* self.signals._handle_socket_data: the split and the deprecated handler
HandleLine ==
    /\ pc = "line"
    /\ lineNo' = lineNo + 1
    /\ LET f == split(lines[cur], DELIM, 1)
           d == DeprecatedDispatch(f, observers)
       IN
       IF Len(f) # 2
       THEN /\ exc' = "ValueError"
            /\ pc' = "finally"
            /\ UNCHANGED <<emitting, log>>
       ELSE /\ log' = IF d.what = "skip" THEN log ELSE Append(log, Decode(d.sig, d.res, lineNo + 1))
            /\ CASE d.what = "skip" -> /\ pc' = "signals"
                                       /\ UNCHANGED <<exc, emitting>>
                 [] d.what = "raise" -> /\ exc' = d.res.kw
                                        /\ pc' = "finally"
                                        /\ UNCHANGED emitting
                 [] d.what = "emit" -> /\ emitting' = EmitFrame(d.sig, d.res.kw, "deprecated")
                                       /\ pc' = "emit"
                                       /\ UNCHANGED exc
    /\ UNCHANGED <<observers, socket, inbox, lines, cur, sends, result, hyprland, held, accesses, threads>>

\* self.signals._handle_socket_data(line)
SignalsHandle ==
    /\ pc = "signals"
    /\ LET d == Dispatch(lines[cur], observers) IN
       /\ log' = IF d.what \in {"error", "emit"} THEN Append(log, Decode(d.sig, d.res, lineNo)) ELSE log
       /\ CASE d.what = "raise" -> /\ exc' = d.res.kw
                                   /\ pc' = "finally"
                                   /\ UNCHANGED emitting
            [] d.what = "emit" -> /\ emitting' = EmitFrame(d.sig, d.res.kw, "signals")
                                  /\ pc' = "emit"
                                  /\ UNCHANGED exc
            [] OTHER -> /\ pc' = "next"
                        /\ UNCHANGED <<exc, emitting>>
    /\ UNCHANGED <<observers, socket, inbox, lines, cur, lineNo, sends, result, hyprland, held, accesses, threads>>

\* the for loop over lines advances; after the last line, while True goes round
NextLine ==
    /\ pc = "next"
    /\ IF cur < Len(lines)
       THEN /\ cur' = cur + 1
            /\ pc' = "line"
            /\ UNCHANGED lines
       ELSE /\ cur' = 0
            /\ lines' = << >>
            /\ pc' = "wait"
    /\ UNCHANGED <<observers, socket, exc, inbox, emitting, lineNo, sends, log, result, hyprland, held, accesses, threads>>

\* finally: self.event_socket.close(); then the frame of watch is left
Finally ==
    /\ pc = "finally"
    /\ socket' = socket_close(socket).socket
    /\ exc' = IF socket_close(socket).raised = "none" THEN exc ELSE socket_close(socket).raised
    /\ pc' = "left"
    /\ result' = [result EXCEPT !.raised = exc']
    /\ UNCHANGED <<observers, inbox, lines, cur, emitting, lineNo, sends, log, hyprland, held, accesses, threads>>

-----------------------------------------------------------------------------
(* The inputs of the specifications *)

\* event lines the compositor may write
EventLines == {
    << "openwindow", DELIM, "0x1", COMMA, "1", COMMA, "kitty", COMMA, "my", COMMA, "title" >>,
    << "openwindow", DELIM, "0x1" >>,
    << "createworkspace", DELIM, "coding" >>,
    << "createworkspace", DELIM, "1" >>,
    << "changefloatingmode", DELIM, "0x1", COMMA, "x" >>,
    << "bogus", DELIM, "x" >>,
    << "_handle_socket_data", DELIM, "x" >>,
    << "openwindow" >> }

\* the signals that are given observers before watch is called
WatchedSignals == { "openwindow", "createworkspace", "changefloatingmode",
                    "signal_window_created", "signal_workspace_created" }

\* the callbacks connected to them
WatchCallbacks == { "a" }

\* the inputs of the specification of the ways watch ends
ExitLines == {
    << "openwindow", DELIM, "0x1", COMMA, "1", COMMA, "kitty", COMMA, "title" >>,
    << "createworkspace", DELIM, "coding" >>,
    << "openwindow" >> }

ExitSignals == { "openwindow", "signal_workspace_created" }

ExitCallbacks == { "a", "raiser", "closer" }

\* the inputs of the specification of one Signal
TestSignals == { "openwindow" }

TestCallbacks == Callbacks \ { "closer" }

TestData == { << >>, "message" :> StrV(<< "hello" >>) }

\* the number of registrations on the signals of S
RECURSIVE Registrations(_)
Registrations(S) ==
    IF S = {} THEN 0
    ELSE LET sig == CHOOSE x \in S : TRUE
         IN Len(observers[sig]) + Registrations(S \ {sig})

-----------------------------------------------------------------------------
(* Components: Window, Workspace and Monitor objects are built from the    *)
(* reply of the command socket and keep the Instance to query it again.    *)

\* the compositor when the Instance is constructed: the workspace of every
\* window and the monitor of every workspace
InitialHyprland ==
    [clients |-> ("0x1" :> 1) @@ ("0x2" :> 2),
     workspaces |-> (1 :> "DP-1") @@ (2 :> "DP-2")]

\* None, as a component
NoComponent == [kind |-> "None"]

\* json.loads(self.command_socket.send_command(command, flags=['-j'])): the
\* list of JSON objects the compositor in state answers with
CommandReply(command, state) ==
    CASE command = "clients" ->
           LET addresses == << "0x1", "0x2" >>
           IN [i \in DOMAIN addresses |->
                  [address |-> addresses[i], workspace_id |-> state.clients[addresses[i]]]]
      [] command = "workspaces" ->
           LET ids == SelectSeq(<< 1, 2 >>, LAMBDA id : id \in DOMAIN state.workspaces)
           IN [i \in DOMAIN ids |-> [id |-> ids[i], monitor_name |-> state.workspaces[ids[i]]]]
      [] command = "monitors" ->
           << [name |-> "DP-1"], [name |-> "DP-2"] >>

\* the Window objects kept from the time the Instance was constructed
get_windows_Cached(state) ==
    << [kind |-> "Window", address |-> "0x1", workspace_id |-> 1],
       [kind |-> "Window", address |-> "0x2", workspace_id |-> 2] >>

get_windows(state) ==
    LET windows_data == CommandReply("clients", state)
    IN [i \in DOMAIN windows_data |->
           [kind |-> "Window", address |-> windows_data[i].address,
            workspace_id |-> windows_data[i].workspace_id]]

get_workspaces(state) ==
    LET workspaces_data == CommandReply("workspaces", state)
    IN [i \in DOMAIN workspaces_data |->
           [kind |-> "Workspace", id |-> workspaces_data[i].id,
            monitor_name |-> workspaces_data[i].monitor_name]]

get_monitors(state) ==
    LET monitors_data == CommandReply("monitors", state)
    IN [i \in DOMAIN monitors_data |-> [kind |-> "Monitor", name |-> monitors_data[i].name]]

\* "for window in self.get_windows(): if ...: return window", None when the
\* loop ends
get_window_by_address(state, address) ==
    LET hits == SelectSeq(get_windows(state), LAMBDA window : window.address = address)
    IN IF hits = << >> THEN NoComponent ELSE hits[1]

get_workspace_by_id(state, id) ==
    LET hits == SelectSeq(get_workspaces(state), LAMBDA workspace : workspace.id = id)
    IN IF hits = << >> THEN NoComponent ELSE hits[1]

get_monitor_by_name(state, name) ==
    LET hits == SelectSeq(get_monitors(state), LAMBDA monitor : monitor.name = name)
    IN IF hits = << >> THEN NoComponent ELSE hits[1]

\* the property without the test "if not workspace"
Window_workspace_Unchecked(self, state) ==
    [raised |-> "none", value |-> get_workspace_by_id(state, self.workspace_id)]

\* the relational properties: the exception raised, or the value
Window_workspace(self, state) ==
    LET workspace == get_workspace_by_id(state, self.workspace_id)
    IN IF workspace = NoComponent
       THEN [raised |-> "ParentNotFoundException", value |-> NoComponent]
       ELSE [raised |-> "none", value |-> workspace]

Workspace_monitor(self, state) ==
    LET monitor == get_monitor_by_name(state, self.monitor_name)
    IN IF monitor = NoComponent
       THEN [raised |-> "ParentNotFoundException", value |-> NoComponent]
       ELSE [raised |-> "none", value |-> monitor]

Workspace_windows(self, state) ==
    [raised |-> "none",
     value |-> SelectSeq(get_windows(state), LAMBDA window : window.workspace_id = self.id)]

Monitor_workspaces(self, state) ==
    [raised |-> "none",
     value |-> SelectSeq(get_workspaces(state),
                         LAMBDA workspace : workspace.monitor_name = self.name)]

\* the user calls a getter of the Instance and keeps what it returns; a
\* command socket that cannot be reached raises SocketError
Get ==
    \E answered \in BOOLEAN :
    \E component \in { get_window_by_address(hyprland, a) : a \in { "0x1", "0x2" } }
                     \cup { get_workspace_by_id(hyprland, id) : id \in { 1, 2 } }
                     \cup { get_monitor_by_name(hyprland, n) : n \in { "DP-1", "DP-2" } } :
        /\ pc = "idle"
        /\ sends < MaxQueries
        /\ held' = IF answered THEN component ELSE held
        /\ result' = [op |-> "get", cb |-> "",
                      raised |-> IF answered THEN "none" ELSE "SocketError"]
        /\ sends' = sends + 1
        /\ UNCHANGED <<observers, socket, pc, exc, inbox, lines, cur, emitting, lineNo, log,
                       hyprland, accesses, threads>>

\* the user reads a relational property of the component they hold
Access ==
    \E answered \in BOOLEAN :
    \E op \in { "Window.workspace", "Workspace.monitor", "Workspace.windows",
                "Monitor.workspaces" } :
        LET r == CASE ~answered -> [raised |-> "SocketError", value |-> NoComponent]
                   [] answered /\ op = "Window.workspace" -> Window_workspace(held, hyprland)
                   [] answered /\ op = "Workspace.monitor" -> Workspace_monitor(held, hyprland)
                   [] answered /\ op = "Workspace.windows" -> Workspace_windows(held, hyprland)
                   [] answered /\ op = "Monitor.workspaces" -> Monitor_workspaces(held, hyprland)
        IN
        /\ pc = "idle"
        /\ sends < MaxQueries
        /\ held.kind = IF op = "Window.workspace" THEN "Window"
                       ELSE IF op = "Monitor.workspaces" THEN "Monitor" ELSE "Workspace"
        /\ result' = [op |-> op, cb |-> "", raised |-> r.raised, value |-> r.value]
        /\ sends' = sends + 1
        /\ accesses' = accesses + 1
        /\ UNCHANGED <<observers, socket, pc, exc, inbox, lines, cur, emitting, lineNo, log,
                       hyprland, held, threads>>

\* the compositor moves a window to a workspace; a workspace that does not
\* exist is created on a monitor and a workspace left empty is destroyed
MoveWindow ==
    \E address \in { "0x1", "0x2" }, id \in { 1, 2 }, monitor \in { "DP-1", "DP-2" } :
        LET clients == [hyprland.clients EXCEPT ![address] = id]
            used == { clients[a] : a \in DOMAIN clients }
        IN
        /\ hyprland.clients[address] # id
        /\ hyprland' = [clients |-> clients,
                        workspaces |-> [w \in used |->
                                           IF w \in DOMAIN hyprland.workspaces
                                           THEN hyprland.workspaces[w] ELSE monitor]]
        /\ UNCHANGED <<observers, socket, pc, exc, inbox, lines, cur, emitting, lineNo, sends,
                       log, result, held, accesses, threads>>

\* the compositor moves a workspace to another monitor
MoveWorkspace ==
    \E id \in { 1, 2 }, monitor \in { "DP-1", "DP-2" } :
        /\ id \in DOMAIN hyprland.workspaces
        /\ hyprland.workspaces[id] # monitor
        /\ hyprland' = [hyprland EXCEPT !.workspaces[id] = monitor]
        /\ UNCHANGED <<observers, socket, pc, exc, inbox, lines, cur, emitting, lineNo, sends,
                       log, result, held, accesses, threads>>

-----------------------------------------------------------------------------
\* the threads that share one CommandSocket, and the command each sends
Threads == { 1, 2 }

Request(t) == IF t = 1 THEN "clients" ELSE "monitors"

\* no thread has called send_command yet
NoCalls ==
    [at |-> [t \in Threads |-> "call"], raised |-> [t \in Threads |-> "none"],
     response |-> [t \in Threads |-> << >>], wire |-> << >>, reply |-> << >>,
     served |-> FALSE]

\* one statement of send_command, or of the connect it calls, run by thread t;
\* the connection is established and the request delivered whenever the state
\* of the socket object allows it
ThreadStep(t) ==
    LET at == threads.at[t]
        Goes(to) == [threads EXCEPT !.at[t] = to]
        EndsWith(e) == [threads EXCEPT !.at[t] = "done", !.raised[t] = e]
    IN
    /\ UNCHANGED <<observers, pc, exc, inbox, lines, cur, emitting, lineNo, sends, log, result,
                   hyprland, held, accesses>>
    /\ \/ /\ at = "call"      \* connect: if self._socket: raise SocketError
          /\ threads' = IF socket # "None" THEN EndsWith("SocketError") ELSE Goes("create")
          /\ socket' = socket
       \/ /\ at = "create"    \* self._socket = socket.socket(AF_UNIX, SOCK_STREAM)
          /\ socket' = "unconnected"
          /\ threads' = [Goes("link") EXCEPT !.wire = << >>, !.reply = << >>, !.served = FALSE]
       \/ /\ at = "link"      \* self._socket.settimeout(..); .connect(path); .setblocking(False)
          /\ socket' = IF socket = "unconnected" THEN "connected" ELSE socket
          /\ threads' = CASE socket = "None" -> EndsWith("AttributeError")
                         [] socket = "connected" -> EndsWith("OSError")
                         [] OTHER -> Goes("send")
       \/ /\ at = "send"      \* self.send(message)
          /\ socket' = socket
          /\ \E delivered \in (IF threads.served THEN BOOLEAN ELSE { TRUE }) :
                threads' = IF socket_send(socket, delivered) # "none"
                         THEN EndsWith(socket_send(socket, delivered))
                         ELSE [Goes("wait") EXCEPT !.wire = Append(threads.wire, Request(t))]
       \/ /\ at = "wait"      \* self.wait(0.5): a reply or the end of the stream is readable
          /\ socket' = socket
          /\ \E ready \in (IF threads.reply # << >> \/ threads.served THEN { TRUE }
                           ELSE IF socket = "connected" /\ threads.wire # << >> THEN { }
                           ELSE IF socket = "connected" THEN { FALSE }
                           ELSE BOOLEAN) :
                threads' = IF socket_wait(socket, ready) # "none"
                         THEN EndsWith(socket_wait(socket, ready))
                         ELSE Goes("read")
       \/ /\ at = "read"      \* response = self.read(): all there is, '' when there is nothing
          /\ socket' = socket
          /\ threads' = IF socket_read(socket, TRUE) # "none"
                      THEN EndsWith(socket_read(socket, TRUE))
                      ELSE [Goes("close") EXCEPT !.response[t] = threads.reply, !.reply = << >>]
       \/ /\ at = "close"     \* self.close(); return response
          /\ socket' = socket_close(socket).socket
          /\ threads' = EndsWith(socket_close(socket).raised)

\* the compositor reads the requests that have arrived on the connection,
\* answers what it has read, and closes the connection
Serve ==
    /\ socket = "connected"
    /\ threads.wire # << >>
    /\ ~threads.served
    /\ threads' = [threads EXCEPT !.reply = threads.wire, !.served = TRUE]
    /\ UNCHANGED <<observers, socket, pc, exc, inbox, lines, cur, emitting, lineNo, sends, log,
                   result, hyprland, held, accesses>>

Init ==
    /\ observers = [sig \in AllSignals |-> << >>]
    /\ socket = "None"
    /\ pc = "idle"
    /\ exc = "none"
    /\ inbox = << >>
    /\ lines = << >>
    /\ cur = 0
    /\ emitting = NoEmit
    /\ lineNo = 0
    /\ sends = 0
    /\ log = << >>
    /\ result = NoCall
    /\ hyprland = InitialHyprland
    /\ held = NoComponent
    /\ accesses = 0
    /\ threads = NoCalls

\* the user connects observers before calling watch
Setup ==
    \E sig \in WatchedSignals, cb \in WatchCallbacks :
        /\ Registrations(WatchedSignals) < MaxObservers
        /\ Connect(sig, cb)

Compositor ==
    \E line \in EventLines :
        /\ sends < MaxSends
        /\ Send(line)

Next ==
    \/ Setup
    \/ WatchConnect
    \/ Compositor
    \/ Wait
    \/ Read
    \/ HandleLine
    \/ SignalsHandle
    \/ EmitStep
    \/ NextLine
    \/ Finally

Spec == Init /\ [][Next]_vars

ExitSetup ==
    \E sig \in ExitSignals, cb \in ExitCallbacks :
        /\ Registrations(ExitSignals) < MaxExitObservers
        /\ Connect(sig, cb)

ExitCompositor ==
    \E line \in ExitLines :
        /\ sends < MaxExitSends
        /\ Send(line)

NextExit ==
    \/ ExitSetup
    \/ UserSocketConnect
    \/ WatchConnect
    \/ ExitCompositor
    \/ Wait
    \/ Read
    \/ HandleLine
    \/ SignalsHandle
    \/ EmitStep
    \/ NextLine
    \/ Finally

SpecExit == Init /\ [][NextExit]_vars

UserConnect ==
    \E sig \in TestSignals, cb \in TestCallbacks :
        /\ Len(observers[sig]) < MaxRegistrations
        /\ Connect(sig, cb)

UserDisconnect == \E sig \in TestSignals, cb \in TestCallbacks : Disconnect(sig, cb)

UserEmit == \E sig \in TestSignals, kw \in TestData : Emit(sig, kw)

NextSignal ==
    \/ UserConnect
    \/ UserDisconnect
    \/ UserEmit
    \/ EmitStep

SpecSignal == Init /\ [][NextSignal]_vars

\* the commands handed to send_command
CommandInputs == { "clients", "" }

UserConnectSocket == \E established \in BOOLEAN : sends < MaxSocketCalls /\ SocketConnect(established)

UserCloseSocket == sends < MaxSocketCalls /\ SocketClose

UserSend == \E delivered \in BOOLEAN : sends < MaxSocketCalls /\ SocketSend(delivered)

UserWait == \E ready \in BOOLEAN : sends < MaxSocketCalls /\ SocketWait(ready)

UserRead == \E received \in BOOLEAN : sends < MaxSocketCalls /\ SocketRead(received)

UserSendCommand ==
    \E command \in CommandInputs, established \in BOOLEAN, delivered \in BOOLEAN,
       ready \in BOOLEAN, received \in BOOLEAN :
        /\ sends < MaxSocketCalls
        /\ SendCommand(command, established, delivered, ready, received)

NextSocket ==
    \/ UserConnectSocket
    \/ UserCloseSocket
    \/ UserSend
    \/ UserWait
    \/ UserRead
    \/ UserSendCommand

SpecSocket == Init /\ [][NextSocket]_vars

\* event lines for the payload decoders
DecodeLines == {
    << "submap", DELIM, "a", DELIM, "b" >>,
    << "closewindow", DELIM, "0x1", DELIM, "2" >>,
    << "workspacev2", DELIM, "DP-1", COMMA, "1" >>,
    << "workspacev2", DELIM, "1", COMMA, "DP-1" >>,
    << "openwindow", DELIM, "0x1234", COMMA, "1", COMMA, "kitty", COMMA,
       "my", COMMA, "title", COMMA, "with", COMMA, "commas" >>,
    << "openwindow", DELIM, "0x1234", COMMA, "1", COMMA, "kitty", COMMA, "title" >>,
    << "fullscreen", DELIM, "0" >>,
    << "fullscreen", DELIM, "1" >>,
    << "fullscreen", DELIM, "2" >>,
    << "fullscreen", DELIM, "-1" >>,
    << "changefloatingmode", DELIM, "0x1", COMMA, "2" >>,
    << "ignoregrouplock", DELIM, "2" >>,
    << "lockgroups", DELIM, "2" >>,
    << "minimized", DELIM, "0x1", COMMA, "2" >>,
    << "pin", DELIM, "0x1", COMMA, "2" >>,
    << "screencast", DELIM, "2", COMMA, "0" >>,
    << "togglegroup", DELIM, "2", COMMA, "0x1" >> }

\* the signals that are given observers before watch is called
DecodeSignals == { "submap", "closewindow", "signal_window_destroyed", "workspacev2",
                   "openwindow", "fullscreen", "changefloatingmode", "ignoregrouplock",
                   "lockgroups", "minimized", "pin", "screencast", "togglegroup" }

DecodeSetup ==
    \E sig \in DecodeSignals :
        /\ Registrations(DecodeSignals) < MaxDecodeObservers
        /\ Connect(sig, "a")

DecodeCompositor ==
    \E line \in DecodeLines :
        /\ sends < MaxDecodeSends
        /\ Send(line)

NextDecode ==
    \/ DecodeSetup
    \/ WatchConnect
    \/ DecodeCompositor
    \/ Wait
    \/ Read
    \/ HandleLine
    \/ SignalsHandle
    \/ EmitStep
    \/ NextLine
    \/ Finally

SpecDecode == Init /\ [][NextDecode]_vars

\* event lines with the special workspace, with empty fields and with names
\* that contain commas
FieldLines == {
    << "createworkspace", DELIM, "special" >>,
    << "createworkspace", DELIM, "special:special" >>,
    << "activespecial", DELIM, COMMA, "DP-1" >>,
    << "activespecial", DELIM, "special:special", COMMA, "DP-1" >>,
    << "activespecialv2", DELIM, COMMA, COMMA, "DP-1" >>,
    << "activespecialv2", DELIM, "-99", COMMA, "special:special", COMMA, "DP-1" >>,
    << "submap", DELIM >>,
    << "submap", DELIM, "resize" >>,
    << "focusedmonv2", DELIM, "DP", COMMA, "1", COMMA, "2" >>,
    << "moveworkspace", DELIM, "my", COMMA, "ws", COMMA, "DP-1" >>,
    << "moveworkspacev2", DELIM, "1", COMMA, "my", COMMA, "ws", COMMA, "DP-1" >>,
    << "movewindowv2", DELIM, "0x1", COMMA, "2", COMMA, "my", COMMA, "ws" >>,
    << "workspacev2", DELIM, "1", COMMA, "my", COMMA, "ws" >> }

\* the signals that are given observers before watch is called
FieldSignals == { "createworkspace", "signal_workspace_created", "activespecial",
                  "activespecialv2", "submap", "focusedmonv2", "moveworkspace",
                  "moveworkspacev2", "movewindowv2", "workspacev2" }

FieldSetup ==
    \E sig \in FieldSignals :
        /\ Registrations(FieldSignals) < MaxDecodeObservers
        /\ Connect(sig, "a")

FieldCompositor ==
    \E line \in FieldLines :
        /\ sends < MaxDecodeSends
        /\ Send(line)

NextFields ==
    \/ FieldSetup
    \/ WatchConnect
    \/ FieldCompositor
    \/ Wait
    \/ Read
    \/ HandleLine
    \/ SignalsHandle
    \/ EmitStep
    \/ NextLine
    \/ Finally

SpecFields == Init /\ [][NextFields]_vars

\* what the compositor writes at once: whole records and parts of records
StreamChunks == {
    << "submap", DELIM, "re" >>,
    << "size", NL >>,
    << "submap", DELIM, "caf", "C3" >>,
    << "A9", NL >>,
    << "submap", DELIM, "caf", "C3", "A9", NL >>,
    << "submap", DELIM, "resize", NL, "submap", DELIM, "re" >> }

StreamCompositor ==
    \E data \in StreamChunks :
        /\ sends < MaxWrites
        /\ Write(data)

NextStream ==
    \/ DecodeSetup
    \/ WatchConnect
    \/ StreamCompositor
    \/ Wait
    \/ Read
    \/ HandleLine
    \/ SignalsHandle
    \/ EmitStep
    \/ NextLine
    \/ Finally

SpecStream == Init /\ [][NextStream]_vars

NextEof ==
    \/ ExitSetup
    \/ WatchConnect
    \/ ExitCompositor
    \/ PeerCloses
    \/ Wait
    \/ Read
    \/ HandleLine
    \/ SignalsHandle
    \/ EmitStep
    \/ NextLine
    \/ Finally

\* the thread that called watch keeps running
SpecEof ==
    /\ Init
    /\ [][NextEof]_vars
    /\ WF_vars(Wait \/ Read \/ HandleLine \/ SignalsHandle \/ EmitStep \/ NextLine \/ Finally)

NextThreads == (\E t \in Threads : ThreadStep(t)) \/ Serve

SpecThreads == Init /\ [][NextThreads]_vars

NextLookup ==
    \/ Get
    \/ Access
    \/ MoveWindow
    \/ MoveWorkspace

SpecLookup == Init /\ [][NextLookup]_vars

-----------------------------------------------------------------------------
(* Vocabulary of the properties *)

HasDelimiter(line) == Len(split(line, DELIM, 1)) = 2

LineName(line) == AttrName(split(line, DELIM, 1)[1])

LinePayload(line) == split(line, DELIM, 1)[2]

\* the line names an event of the closed vocabulary
KnownEvent(line) == HasDelimiter(line) /\ LineName(line) \in SignalNames

UnknownEvent(line) == HasDelimiter(line) /\ LineName(line) \notin SignalNames

\* the payload has the shape the protocol gives the event
WellFormed(line) == KnownEvent(line) /\ Parser(LineName(line), LinePayload(line)).ok

\* the number of fields of an event's payload in the protocol
FieldCount(name) ==
    CASE name = "openwindow" -> 4
      [] name \in { "activespecialv2", "monitoraddedv2", "movewindowv2", "moveworkspacev2" } -> 3
      [] name \in { "activelayout", "activespecial", "activewindow", "changefloatingmode",
                    "createworkspacev2", "destroyworkspacev2", "focusedmon", "focusedmonv2",
                    "minimized", "movewindow", "moveworkspace", "pin", "renameworkspace",
                    "screencast", "togglegroup", "windowtitlev2", "workspacev2" } -> 2
      [] OTHER -> 1

CommaCount(s) == Cardinality({ i \in 1..Len(s) : s[i] = COMMA })

TooFewCommas(line) ==
    KnownEvent(line) /\ CommaCount(LinePayload(line)) < FieldCount(LineName(line)) - 1

\* the signals a line feeds
SignalsOf(line) ==
    { LineName(line) } \cup
    (IF LineName(line) \in DOMAIN _deprecated_signal_for_event
     THEN { _deprecated_signal_for_event[LineName(line)] } ELSE {})

\* how many lines of the buffer watch has begun to handle
Begun == IF pc = "line" THEN cur - 1 ELSE cur

\* the number that line j of the buffer has, or will have, among the handled lines
BufferLineNo(j) == lineNo - Begun + j

\* the handling of line j of the buffer has ended without an exception
Completed(j) == j < cur \/ (j = cur /\ pc = "next")

\* watch is on its way out, or out
Exiting == pc \in { "finally", "left" }

LastOf(seq) == seq[Len(seq)]

\* the entries of the log that are observer calls for handled line n
CallsOfLine(n) == SelectSeq(log, LAMBDA e : e.op = "call" /\ e.line = n)

\* the callback leaves the observer list alone and returns
Returns(cb) == CallbackTable[cb].does = "return"

AllReturn(list) == \A i \in 1..Len(list) : Returns(list[i])

\* the calls an emission over list makes when every callback returns
CallsOver(sig, list, kw, n) ==
    [ i \in 1..Len(list) |->
        [op |-> "call", sig |-> sig, cb |-> list[i], sender |-> SenderOf(sig),
         kw |-> kw, line |-> n, ok |-> TRUE] ]

\* connect must reject the callback
Invalid(cb) ==
    \/ ~CallbackTable[cb].callable
    \/ CallbackTable[cb].params = << >>
    \/ CallbackTable[cb].params[1] # "sender"
    \/ ~CallbackTable[cb].var_keyword

-----------------------------------------------------------------------------
(* Properties *)

\* C1: whenever the frame of Instance.watch has been left, by whatever path
\* (connect failed, wait or read raised, a decoder or an observer raised), the
\* event socket is disconnected: its _socket is None.
C1_SocketClosedWhenWatchLeft == pc = "left" => socket = "None"

\* an observer raised during a dispatch and watch has been left
C1_Witness == pc = "left" /\ exc = "ObserverError" /\ cur >= 1 /\ socket = "None"

\* C2: a step of watch that runs a payload decoder (a _parse_ function, or the
\* conversion of the deprecated handler) is taken only when the signal it feeds
\* has an observer; and while no signal has an observer, nothing is decoded and
\* nothing is called.
C2_DecodeOnlyWithObservers ==
    /\ [][ (Len(log') = Len(log) + 1 /\ LastOf(log').op = "decode")
           => observers[LastOf(log').sig] # << >> ]_vars
    /\ []((\A sig \in AllSignals : observers[sig] = << >>) => log = << >>)

\* a well-formed line was handled whose signals have no observer, while another
\* signal has one: nothing was decoded for the line
C2_Witness ==
    /\ pc = "next"
    /\ WellFormed(lines[cur])
    /\ \A sig \in SignalsOf(lines[cur]) : observers[sig] = << >>
    /\ \E sig \in AllSignals : observers[sig] # << >>
    /\ \A i \in 1..Len(log) : log[i].line # lineNo

\* C3: a step in which a decoder fails leaves no exception propagating: the
\* event is dropped and watch goes on.
C3_DecodeFailureStaysInWatch ==
    [][ (Len(log') = Len(log) + 1 /\ LastOf(log').op = "decode" /\ ~LastOf(log').ok)
        => (exc' = "none" /\ ~Exiting') ]_vars

\* C4: when the buffer holds a line with too few commas followed by well-formed
\* lines, no exception ends the handling of these lines, and every such later
\* line whose signal has an observer is decoded and emitted.
C4_ShortLineThenWellFormedLines ==
    \A j \in 1..Len(lines), k \in 1..Len(lines) :
        (j < k /\ TooFewCommas(lines[j]) /\ \A m \in (j + 1)..k : WellFormed(lines[m]))
        => /\ ~(Exiting /\ cur \in j..k)
           /\ (Completed(k) /\ observers[LineName(lines[k])] # << >>)
              => \E i \in 1..Len(log) :
                    /\ log[i].op = "call"
                    /\ log[i].sig = LineName(lines[k])
                    /\ log[i].line = BufferLineNo(k)

\* C5: a line without the ">>" delimiter does not end watch: watch is never on
\* its way out while it stands at such a line.
C5_LineWithoutDelimiterIsolated ==
    \A j \in 1..Len(lines) : ~HasDelimiter(lines[j]) => ~(Exiting /\ cur = j)

\* C6: a line whose event name is not in the vocabulary (a method name
\* included) is dropped: no decoder run and no observer call is logged for it,
\* no exception and no emission starts while watch stands at it, and the loop
\* goes on to the line after it.
C6_UnknownEventDropped ==
    /\ [](\A j \in 1..Len(lines) :
            UnknownEvent(lines[j])
            => /\ ~(cur = j /\ (Exiting \/ pc = "emit"))
               /\ \A i \in 1..Len(log) : log[i].line # BufferLineNo(j))
    /\ [][ (pc = "next" /\ UnknownEvent(lines[cur]) /\ cur < Len(lines))
           => (pc' = "line" /\ cur' = cur + 1 /\ exc' = "none") ]_vars

\* the line after a dropped "_handle_socket_data>>x" has been decoded
C6_Witness ==
    /\ cur = 2
    /\ LineName(lines[1]) = "_handle_socket_data"
    /\ \E i \in 1..Len(log) : log[i].line = lineNo /\ log[i].op = "decode"

\* C7: for a buffer of several well-formed lines whose signals each have one
\* observer, no exception ends the handling, the log follows the order of the
\* lines, and once a line is handled its observers were called exactly once
\* each, the deprecated signal's before the current one's.
C7_EachObserverOnceInLineOrder ==
    (/\ cur >= 1
     /\ Len(lines) >= 2
     /\ \A j \in 1..Len(lines) :
           /\ WellFormed(lines[j])
           /\ \A sig \in SignalsOf(lines[j]) : Len(observers[sig]) = 1)
    => /\ ~Exiting
       /\ \A x \in 1..Len(log), y \in 1..Len(log) : x < y => log[x].line <= log[y].line
       /\ \A j \in 1..Len(lines) :
             Completed(j)
             => LET name == LineName(lines[j])
                    calls == CallsOfLine(BufferLineNo(j))
                IN
                IF name \in DOMAIN _deprecated_signal_for_event
                THEN /\ Len(calls) = 2
                     /\ calls[1].sig = _deprecated_signal_for_event[name]
                     /\ calls[2].sig = name
                ELSE /\ Len(calls) = 1
                     /\ calls[1].sig = name

\* C8: connect appends the callback at the end of the observer list, disconnect
\* takes out one registration of the callback and keeps the order of the rest,
\* and an emit over callbacks that return calls every registration once, in list
\* order, with the signal's sender and the emitted keyword data.
C8_EmitInConnectionOrder ==
    /\ [][ (pc = "idle" /\ pc' = "idle" /\ result'.op = "connect" /\ result'.raised = "none")
           => \E sig \in AllSignals :
                 observers' = [observers EXCEPT ![sig] = Append(observers[sig], result'.cb)] ]_vars
    /\ [][ (pc = "idle" /\ pc' = "idle" /\ result'.op = "disconnect" /\ result'.raised = "none")
           => \E sig \in AllSignals : \E i \in 1..Len(observers[sig]) :
                 /\ observers[sig][i] = result'.cb
                 /\ observers' = [observers EXCEPT ![sig] =
                        SubSeq(observers[sig], 1, i - 1)
                        \o SubSeq(observers[sig], i + 1, Len(observers[sig]))] ]_vars
    /\ []((pc = "idle" /\ result.op = "emit" /\ AllReturn(emitting.start))
          => /\ result.raised = "none"
             /\ observers[emitting.sig] = emitting.start
             /\ log = CallsOver(emitting.sig, emitting.start, emitting.kw, lineNo))

\* an emit over b, a, b has ended: b was called twice
C8_Witness ==
    /\ pc = "idle"
    /\ result.op = "emit"
    /\ emitting.start = << "b", "a", "b" >>
    /\ emitting.kw # << >>
    /\ Len(log) = 3

\* C9: when an observer raises during emit and the observers before it return,
\* the exception reaches the caller of emit, exactly the observers up to the
\* raising one were called, once each and in order, and the observer list is as
\* it was.
C9_ObserverExceptionPropagates ==
    \A k \in 1..Len(emitting.start) :
        (/\ pc = "idle"
         /\ result.op = "emit"
         /\ CallbackTable[emitting.start[k]].does = "raise"
         /\ AllReturn(SubSeq(emitting.start, 1, k - 1)))
        => /\ result.raised = "ObserverError"
           /\ log = CallsOver(emitting.sig, SubSeq(emitting.start, 1, k), emitting.kw, lineNo)
           /\ observers[emitting.sig] = emitting.start

\* an emit over a, raiser, b has ended
C9_Witness ==
    /\ pc = "idle"
    /\ result.op = "emit"
    /\ emitting.start = << "a", "raiser", "b" >>

\* C10: connect with a callback that is not callable, has no first parameter
\* named sender or takes no **kwargs raises and leaves the observer list as it
\* was; such a callback is never in an observer list, never called by an emit,
\* and a disconnect of it raises ValueError and changes nothing.
C10_InvalidCallbackRejected ==
    /\ [](\A sig \in AllSignals : \A i \in 1..Len(observers[sig]) : ~Invalid(observers[sig][i]))
    /\ [](\A i \in 1..Len(log) : log[i].op = "call" => ~Invalid(log[i].cb))
    /\ [][ (pc = "idle" /\ pc' = "idle" /\ result'.op = "connect" /\ Invalid(result'.cb))
           => (result'.raised \in { "TypeError", "ValueError" } /\ observers' = observers) ]_vars
    /\ [][ (pc = "idle" /\ pc' = "idle" /\ result'.op = "disconnect" /\ Invalid(result'.cb))
           => (result'.raised = "ValueError" /\ observers' = observers) ]_vars

\* connect of a callback without **kwargs has raised on a list of two observers
C10_Witness ==
    /\ result = [op |-> "connect", cb |-> "no_kwargs", raised |-> "ValueError"]
    /\ Len(observers["openwindow"]) = 2

\* C11: a disconnect of a registered callback takes out its earliest
\* registration and nothing else, the other registrations keeping their order;
\* a disconnect of a callback that is not registered raises ValueError and
\* leaves the observer list as it was.
C11_DisconnectRemovesEarliest ==
    [][ (pc = "idle" /\ pc' = "idle" /\ result'.op = "disconnect")
        => \E sig \in AllSignals :
              LET obs == observers[sig]
                  cb == result'.cb
              IN
              /\ \A other \in AllSignals \ {sig} : observers'[other] = observers[other]
              /\ IF \E i \in 1..Len(obs) : obs[i] = cb
                 THEN /\ result'.raised = "none"
                      /\ \E i \in 1..Len(obs) :
                            /\ obs[i] = cb
                            /\ \A j \in 1..(i - 1) : obs[j] # cb
                            /\ observers'[sig] = [k \in 1..(Len(obs) - 1) |->
                                                    IF k < i THEN obs[k] ELSE obs[k + 1]]
                 ELSE /\ result'.raised = "ValueError"
                      /\ observers'[sig] = obs ]_vars

\* a was disconnected from a list that held it twice: b, a is left
C11_Witness ==
    /\ result = [op |-> "disconnect", cb |-> "a", raised |-> "none"]
    /\ observers["openwindow"] = << "b", "a" >>

\* the operation is called in the wrong connection state: connect on a
\* connected socket, any other operation on a socket that is not connected
WrongState(op, before) ==
    \/ op = "connect" /\ before = "connected"
    \/ op \in { "close", "send", "wait", "read" } /\ before # "connected"

\* C12: every transport operation called in the wrong connection state has
\* raised SocketError and left the connection state as it was.
C12_WrongStateRaisesSocketError ==
    \A i \in 1..Len(log) :
        WrongState(log[i].op, log[i].before)
        => (log[i].raised = "SocketError" /\ log[i].after = log[i].before)

\* C13: every connect that failed to establish the connection has raised
\* SocketError.
C13_ConnectFailureIsSocketError ==
    \A i \in 1..Len(log) :
        (log[i].op = "connect" /\ log[i].before = "None" /\ ~log[i].input)
        => log[i].raised = "SocketError"

\* C14: every send_command that was called on a disconnected socket has left
\* the socket disconnected, whether it returned a reply or raised.
C14_SendCommandLeavesDisconnected ==
    \A i \in 1..Len(log) :
        (log[i].op = "send_command" /\ log[i].before = "None") => log[i].after = "None"

\* C15: every wait on a connected socket for which no data became readable in
\* time has raised SocketError and left the socket connected.
C15_WaitTimeoutRaises ==
    \A i \in 1..Len(log) :
        (log[i].op = "wait" /\ log[i].before = "connected" /\ ~log[i].input)
        => (log[i].raised = "SocketError" /\ log[i].after = "connected")

\* a wait timed out and the wait after it returned
C15_Witness ==
    \E i \in 1..(Len(log) - 1) :
        /\ log[i] = SocketCall("wait", FALSE, "SocketError", "connected", "connected")
        /\ log[i + 1] = SocketCall("wait", TRUE, "none", "connected", "connected")

\* C16: once the event socket has been closed while watch runs, the next wait
\* or read of watch raises SocketError and watch goes to its exit without
\* handling a line; and on its way out watch handles no line and calls no
\* observer.
C16_ClosedSocketEndsWatch ==
    /\ [][ (socket = "None" /\ pc \in { "wait", "read" })
           => (pc' = "finally" /\ exc' = "SocketError" /\ lineNo' = lineNo /\ log' = log) ]_vars
    /\ [][ Exiting => (Exiting' /\ lineNo' = lineNo /\ log' = log) ]_vars

\* an observer closed the event socket, and watch has been left with SocketError
C16_Witness ==
    /\ pc = "left"
    /\ result.raised = "SocketError"
    /\ socket = "None"
    /\ \E i \in 1..Len(log) : log[i].op = "call" /\ log[i].cb = "closer"

\* the text before and after the first ">>" of a line that has one
NameText(line) == SubSeq(line, 1, IndexOf(line, DELIM) - 1)

PayloadText(line) == SubSeq(line, IndexOf(line, DELIM) + 1, Len(line))

\* the log has an observer call for signal sig and line j of the buffer
CalledFor(sig, j) ==
    \E i \in 1..Len(log) :
        log[i].op = "call" /\ log[i].sig = sig /\ log[i].line = BufferLineNo(j)

\* C17: for every line that has a ">>", the split does not fail, the event name
\* is the text before the first ">>" and the payload everything after it: every
\* observer call made for the line carries the data decoded from that whole
\* payload, and a line whose signal has an observer and whose payload decodes
\* is delivered.
C17_SplitAtFirstDelimiter ==
    \A j \in 1..Len(lines) :
        IndexOf(lines[j], DELIM) # 0
        => LET name == AttrName(NameText(lines[j]))
               payload == PayloadText(lines[j])
               deprecated == name \in DOMAIN _deprecated_signal_for_event
           IN
           /\ (Exiting /\ cur = j) => exc # "ValueError"
           /\ \A i \in 1..Len(log) :
                 (log[i].op = "call" /\ log[i].line = BufferLineNo(j))
                 => IF log[i].sig \in SignalNames
                    THEN /\ log[i].sig = name
                         /\ log[i].kw = Parser(name, payload).kw
                    ELSE /\ deprecated
                         /\ log[i].sig = _deprecated_signal_for_event[name]
                         /\ log[i].kw = DeprecatedData(name, payload).kw
           /\ (/\ Completed(j)
               /\ name \in SignalNames
               /\ observers[name] # << >>
               /\ Parser(name, payload).ok) => CalledFor(name, j)
           /\ (/\ Completed(j)
               /\ deprecated
               /\ observers[_deprecated_signal_for_event[name]] # << >>)
              => CalledFor(_deprecated_signal_for_event[name], j)

\* the observer of submap was called for "submap>>a>>b" with the name "a>>b"
C17_Witness ==
    /\ pc = "next"
    /\ lines[cur] = << "submap", DELIM, "a", DELIM, "b" >>
    /\ \E i \in 1..Len(log) :
          /\ log[i].op = "call"
          /\ log[i].sig = "submap"
          /\ log[i].kw = ("submap_name" :> StrV(<< "a", DELIM, "b" >>))

\* the log has an observer call for signal sig and line j of the buffer that
\* carries the keyword data kw
CalledWith(sig, j, kw) ==
    \E i \in 1..Len(log) :
        /\ log[i].op = "call"
        /\ log[i].sig = sig
        /\ log[i].line = BufferLineNo(j)
        /\ log[i].kw = kw

\* C18: once the line "workspacev2>>DP-1,1" has been handled and workspacev2
\* has an observer, the observer was called with workspace_name "DP-1" and
\* workspace_id 1.
C18_WorkspaceV2NameThenId ==
    \A j \in 1..Len(lines) :
        (/\ lines[j] = << "workspacev2", DELIM, "DP-1", COMMA, "1" >>
         /\ Completed(j)
         /\ observers["workspacev2"] # << >>)
        => CalledWith("workspacev2", j,
                      ("workspace_name" :> StrV(<< "DP-1" >>)) @@ ("workspace_id" :> IntV(1)))

\* the index of the n-th comma of s
CommaAt(s, n) ==
    CHOOSE i \in 1..Len(s) :
        s[i] = COMMA /\ Cardinality({ k \in 1..i : s[k] = COMMA }) = n

\* C19: once an openwindow line whose payload has three or more commas has
\* been handled and openwindow has an observer, the observer was called with
\* the text up to the first comma as window_address, the text between the first
\* and the second comma as workspace_name, the text between the second and the
\* third comma as window_class, and everything after the third comma, commas
\* included, as window_title.
C19_OpenWindowTitleKeepsCommas ==
    \A j \in 1..Len(lines) :
        (/\ IndexOf(lines[j], DELIM) # 0
         /\ NameText(lines[j]) = << "openwindow" >>
         /\ CommaCount(PayloadText(lines[j])) >= 3
         /\ Completed(j)
         /\ observers["openwindow"] # << >>)
        => LET p == PayloadText(lines[j])
               c1 == CommaAt(p, 1)
               c2 == CommaAt(p, 2)
               c3 == CommaAt(p, 3)
           IN
           CalledWith("openwindow", j,
                      ("window_address" :> StrV(SubSeq(p, 1, c1 - 1)))
                      @@ ("workspace_name" :> StrV(SubSeq(p, c1 + 1, c2 - 1)))
                      @@ ("window_class" :> StrV(SubSeq(p, c2 + 1, c3 - 1)))
                      @@ ("window_title" :> StrV(SubSeq(p, c3 + 1, Len(p)))))

\* the observer of openwindow was called for
\* "openwindow>>0x1234,1,kitty,my,title,with,commas" with the title
\* "my,title,with,commas"
C19_Witness ==
    /\ pc = "next"
    /\ CalledWith("openwindow", cur,
                  ("window_address" :> StrV(<< "0x1234" >>))
                  @@ ("workspace_name" :> StrV(<< "1" >>))
                  @@ ("window_class" :> StrV(<< "kitty" >>))
                  @@ ("window_title" :>
                        StrV(<< "my", COMMA, "title", COMMA, "with", COMMA, "commas" >>)))

\* the events that carry a boolean field, with the name of the field
BoolField ==
    [ changefloatingmode |-> "is_floating",
      fullscreen |-> "is_fullscreen",
      ignoregrouplock |-> "ignore_group_lock_enabled",
      lockgroups |-> "lock_groups_enabled",
      minimized |-> "is_minimized",
      pin |-> "is_pinned",
      screencast |-> "screencast_enabled",
      togglegroup |-> "group_is_active" ]

\* the text of the boolean field in the payload of the event
FlagText(name, payload) ==
    CASE name \in { "fullscreen", "ignoregrouplock", "lockgroups" } -> payload
      [] name \in { "changefloatingmode", "minimized", "pin" } ->
           SubSeq(payload, LastIndexOf(payload, COMMA) + 1, Len(payload))
      [] name \in { "screencast", "togglegroup" } ->
           SubSeq(payload, 1, IndexOf(payload, COMMA) - 1)

\* C20: once a line of an event with a boolean field has been handled and the
\* event's signal has an observer: if the field's text is "0" the observer was
\* called with False, if it is "1" the observer was called with True, and if it
\* is anything else no observer was called for the line.
C20_BooleanFieldsZeroOrOne ==
    \A j \in 1..Len(lines) :
        (/\ IndexOf(lines[j], DELIM) # 0
         /\ AttrName(NameText(lines[j])) \in DOMAIN BoolField
         /\ Completed(j)
         /\ observers[AttrName(NameText(lines[j]))] # << >>)
        => LET name == AttrName(NameText(lines[j]))
               flag == FlagText(name, PayloadText(lines[j]))
           IN
           IF flag \in { << "0" >>, << "1" >> }
           THEN \E i \in 1..Len(log) :
                   /\ log[i].op = "call"
                   /\ log[i].sig = name
                   /\ log[i].line = BufferLineNo(j)
                   /\ log[i].kw[BoolField[name]] = BoolV(flag = << "1" >>)
           ELSE ~CalledFor(name, j)

\* the payloads that name the special workspace
SentinelPayloads == { << "special" >>, << "special:special" >> }

\* C21: once a createworkspace line whose payload is the sentinel of the
\* special workspace has been handled, every signal of the line that has an
\* observer has called it with the id -99 and with no field that is the
\* sentinel text.
C21_SentinelDeliveredAsId ==
    \A j \in 1..Len(lines) :
        (/\ IndexOf(lines[j], DELIM) # 0
         /\ NameText(lines[j]) = << "createworkspace" >>
         /\ PayloadText(lines[j]) \in SentinelPayloads
         /\ Completed(j))
        => \A sig \in { "createworkspace", "signal_workspace_created" } :
              observers[sig] # << >>
              => \E i \in 1..Len(log) :
                    /\ log[i].op = "call"
                    /\ log[i].sig = sig
                    /\ log[i].line = BufferLineNo(j)
                    /\ \E k \in DOMAIN log[i].kw : log[i].kw[k] = IntV(0 - 99)
                    /\ \A k \in DOMAIN log[i].kw : log[i].kw[k] # StrV(PayloadText(lines[j]))

\* C21 amended: no decoding of a createworkspace line whose payload is the
\* sentinel of the special workspace fails; once the line has been handled,
\* the observers of the deprecated signal_workspace_created were called with
\* created_workspace_id -99 and the observers of signals.createworkspace were
\* called with the payload text as workspace_name.
C21_SentinelIdOnDeprecatedSignal ==
    \A j \in 1..Len(lines) :
        (/\ IndexOf(lines[j], DELIM) # 0
         /\ NameText(lines[j]) = << "createworkspace" >>
         /\ PayloadText(lines[j]) \in SentinelPayloads)
        => /\ \A i \in 1..Len(log) :
                  (log[i].op = "decode" /\ log[i].line = BufferLineNo(j)) => log[i].ok
           /\ (Completed(j) /\ observers["signal_workspace_created"] # << >>)
              => CalledWith("signal_workspace_created", j,
                            "created_workspace_id" :> IntV(0 - 99))
           /\ (Completed(j) /\ observers["createworkspace"] # << >>)
              => CalledWith("createworkspace", j,
                            "workspace_name" :> StrV(PayloadText(lines[j])))

\* the observer of signal_workspace_created was called for
\* "createworkspace>>special" with the id -99
C21_Witness ==
    /\ pc = "next"
    /\ lines[cur] = << "createworkspace", DELIM, "special" >>
    /\ CalledWith("signal_workspace_created", cur, "created_workspace_id" :> IntV(0 - 99))

\* the fields that may carry no value, each with its place in the payload:
\* 0 for the whole payload, n for the text that ends at the n-th comma
OptionalFields(name) ==
    CASE name = "activespecial" -> { << "workspace_name", 1 >> }
      [] name = "activespecialv2" -> { << "workspace_id", 1 >>, << "workspace_name", 2 >> }
      [] name = "submap" -> { << "submap_name", 0 >> }
      [] OTHER -> { }

OptionalEvents == { "activespecial", "activespecialv2", "submap" }

\* the payload has nothing at the place of the field
FieldIsEmpty(payload, n) ==
    CASE n = 0 -> payload = << >>
      [] n = 1 -> payload # << >> /\ payload[1] = COMMA
      [] OTHER -> /\ Cardinality({ k \in 1..Len(payload) : payload[k] = COMMA }) >= n
                  /\ CommaAt(payload, n) = CommaAt(payload, n - 1) + 1

\* C22: for a line of activespecial, activespecialv2 or submap whose payload
\* has nothing at the place of a field that may carry no value, no decoding of
\* the line fails, every observer call made for the line carries None for the
\* field, and the observer has been called once the line has been handled.
C22_EmptyOptionalFieldIsNone ==
    \A j \in 1..Len(lines) : \A name \in OptionalEvents :
        \A of \in OptionalFields(name) :
            (/\ IndexOf(lines[j], DELIM) # 0
             /\ NameText(lines[j]) = << name >>
             /\ FieldIsEmpty(PayloadText(lines[j]), of[2]))
            => /\ \A i \in 1..Len(log) :
                      log[i].line = BufferLineNo(j)
                      => /\ log[i].op = "decode" => log[i].ok
                         /\ (log[i].op = "call" /\ log[i].sig = name)
                            => log[i].kw[of[1]] = NoneV
               /\ (Completed(j) /\ observers[name] # << >>) => CalledFor(name, j)

\* the observer of activespecialv2 was called for "activespecialv2>>,,DP-1"
\* with None for both the id and the name
C22_Witness ==
    /\ pc = "next"
    /\ lines[cur] = << "activespecialv2", DELIM, COMMA, COMMA, "DP-1" >>
    /\ CalledWith("activespecialv2", cur,
                  ("workspace_id" :> NoneV) @@ ("workspace_name" :> NoneV)
                  @@ ("monitor_name" :> StrV(<< "DP-1" >>)))

RightSplitEvents == { "focusedmonv2", "moveworkspace", "moveworkspacev2", "movewindowv2",
                      "workspacev2" }

\* the text of payload p from after comma number a to before comma number b;
\* comma number 0 is the beginning, comma number -1 the last comma, 99 the end
Between(p, a, b) ==
    LET at(n) == CASE n = 0 -> 0
                   [] n = 0 - 1 -> LastIndexOf(p, COMMA)
                   [] n = 99 -> Len(p) + 1
                   [] OTHER -> CommaAt(p, n)
    IN SubSeq(p, at(a) + 1, at(b) - 1)

\* the fields the compositor put into payload p of a right-split event: the id
\* text, the name that may contain commas, and the other field
SentId(name, p) ==
    CASE name = "focusedmonv2" -> Between(p, 0 - 1, 99)
      [] name = "moveworkspacev2" -> Between(p, 0, 1)
      [] name = "movewindowv2" -> Between(p, 1, 2)
      [] name = "workspacev2" -> Between(p, 0, 1)
      [] OTHER -> << >>

SentName(name, p) ==
    CASE name = "focusedmonv2" -> Between(p, 0, 0 - 1)
      [] name = "moveworkspace" -> Between(p, 0, 0 - 1)
      [] name = "moveworkspacev2" -> Between(p, 1, 0 - 1)
      [] name = "movewindowv2" -> Between(p, 2, 99)
      [] name = "workspacev2" -> Between(p, 1, 99)

NameField(name) == IF name = "focusedmonv2" THEN "monitor_name" ELSE "workspace_name"

\* the payload has the commas its fields need, and a numeral where the id is
SentWellFormed(name, p) ==
    /\ Cardinality({ k \in 1..Len(p) : p[k] = COMMA })
          >= (IF name \in { "moveworkspacev2", "movewindowv2" } THEN 2 ELSE 1)
    /\ name # "moveworkspace" => IsInt(SentId(name, p))

\* C29: once a line of focusedmonv2, moveworkspace, moveworkspacev2,
\* movewindowv2 or workspacev2 has been handled and the signal has an observer,
\* the observer was called with the sent name, commas included, and with the
\* sent id.
C29_RightSplitKeepsCommasInName ==
    \A j \in 1..Len(lines) : \A name \in RightSplitEvents :
        (/\ IndexOf(lines[j], DELIM) # 0
         /\ NameText(lines[j]) = << name >>
         /\ SentWellFormed(name, PayloadText(lines[j]))
         /\ Completed(j)
         /\ observers[name] # << >>)
        => \E i \in 1..Len(log) :
              /\ log[i].op = "call"
              /\ log[i].sig = name
              /\ log[i].line = BufferLineNo(j)
              /\ log[i].kw[NameField(name)] = StrV(SentName(name, PayloadText(lines[j])))
              /\ name # "moveworkspace"
                 => log[i].kw["workspace_id"] = IntV(IntOf(SentId(name, PayloadText(lines[j]))))

\* C23: every call of an observer of signal_window_created comes after a
\* command the command socket was sent for the same line: the lookup of the
\* opened window precedes the observer.
C23_LookupBeforeWindowCreatedObserver ==
    \A i \in 1..Len(log) :
        (log[i].op = "call" /\ log[i].sig = "signal_window_created")
        => \E k \in 1..(i - 1) : log[k].op = "send_command"

\* the signal table of the user guide: the keyword each Instance signal
\* passes, and the kind of its value
GuideSignalData ==
    ("signal_workspace_created" :> [key |-> "new_workspace", kind |-> "Workspace"])
    @@ ("signal_workspace_destroyed" :> [key |-> "destroyed_workspace_id", kind |-> "int"])
    @@ ("signal_active_workspace_changed" :> [key |-> "active_workspace", kind |-> "Workspace"])
    @@ ("signal_window_created" :> [key |-> "new_window", kind |-> "Window"])
    @@ ("signal_window_destroyed" :> [key |-> "destroyed_window_address", kind |-> "str"])
    @@ ("signal_active_window_changed" :> [key |-> "active_window", kind |-> "Window"])

\* C24: every call of an observer of an Instance signal of the user guide
\* carries exactly the keyword the guide's table lists for the signal, with a
\* value of the listed kind.
C24_GuideSignalData ==
    \A i \in 1..Len(log) :
        (log[i].op = "call" /\ log[i].sig \in DOMAIN GuideSignalData)
        => /\ DOMAIN log[i].kw = { GuideSignalData[log[i].sig].key }
           /\ log[i].kw[GuideSignalData[log[i].sig].key].t = GuideSignalData[log[i].sig].kind

\* the addresses of the windows that are on workspace id, and the ids of the
\* workspaces that are on monitor name, in the compositor
WindowsOn(id) == { a \in DOMAIN hyprland.clients : hyprland.clients[a] = id }

WorkspacesOn(name) == { w \in DOMAIN hyprland.workspaces : hyprland.workspaces[w] = name }

\* r lists Window objects of exactly the windows of workspace id, each once
ListsWindowsOn(r, id) ==
    /\ r.raised = "none"
    /\ { r.value[i].address : i \in DOMAIN r.value } = WindowsOn(id)
    /\ Len(r.value) = Cardinality(WindowsOn(id))
    /\ \A i \in DOMAIN r.value : r.value[i].kind = "Window" /\ r.value[i].workspace_id = id

\* r lists Workspace objects of exactly the workspaces of monitor name, each once
ListsWorkspacesOn(r, name) ==
    /\ r.raised = "none"
    /\ { r.value[i].id : i \in DOMAIN r.value } = WorkspacesOn(name)
    /\ Len(r.value) = Cardinality(WorkspacesOn(name))
    /\ \A i \in DOMAIN r.value : r.value[i].kind = "Workspace" /\ r.value[i].monitor_name = name

\* r is the Workspace object of workspace id as the compositor has it
IsWorkspace(r, id) ==
    /\ r.raised = "none"
    /\ r.value = [kind |-> "Workspace", id |-> id, monitor_name |-> hyprland.workspaces[id]]

IsMonitor(r, name) ==
    r.raised = "none" /\ r.value = [kind |-> "Monitor", name |-> name]

\* r is what the relation of component self is in the compositor now: the
\* workspace the window is on, the monitor the workspace is on, the windows
\* of the workspace, the workspaces of the monitor
ReflectsCompositor(r, self) ==
    CASE r.op = "Window.workspace" -> IsWorkspace(r, hyprland.clients[self.address])
      [] r.op = "Workspace.monitor" ->
           self.id \in DOMAIN hyprland.workspaces => IsMonitor(r, hyprland.workspaces[self.id])
      [] r.op = "Workspace.windows" -> ListsWindowsOn(r, self.id)
      [] r.op = "Monitor.workspaces" -> ListsWorkspacesOn(r, self.name)

\* r is what the compositor now has for the identifiers component self
\* recorded when it was built
ReflectsRecordedIds(r, self) ==
    CASE r.op = "Window.workspace" ->
           IF self.workspace_id \in DOMAIN hyprland.workspaces
           THEN IsWorkspace(r, self.workspace_id)
           ELSE r.raised = "ParentNotFoundException"
      [] r.op = "Workspace.monitor" -> IsMonitor(r, self.monitor_name)
      [] r.op = "Workspace.windows" -> ListsWindowsOn(r, self.id)
      [] r.op = "Monitor.workspaces" -> ListsWorkspacesOn(r, self.name)

ObserverRaised == \E i \in 1..Len(log) : log[i].op = "call" /\ log[i].cb = "raiser"

C27_SenderIsOwningInstance ==
    \A i \in 1..Len(log) :
        log[i].op = "call"
        => /\ log[i].sender = "Instance"
           /\ \A k \in 1..Len(log) :
                 (log[k].op = "call" /\ log[k].sig = log[i].sig)
                 => log[k].sender = log[i].sender

\* the text without its newlines
WithoutNL(text) == SelectSeq(text, LAMBDA c : c # NL)

\* the lines of a buffer, one after the other
RECURSIVE Joined(_)
Joined(buffer) ==
    IF buffer = << >> THEN << >> ELSE buffer[1] \o Joined(SubSeq(buffer, 2, Len(buffer)))

\* C28: a read that returns takes every byte out of the socket, and the lines
\* watch then handles are the text of exactly those bytes; every observer call
\* made for a line of the buffer carries the data decoded from that line as it
\* stands in the buffer.
C28_BuffersHandledOnTheirOwn ==
    /\ [][ (pc = "read" /\ pc' \in { "line", "wait" })
           => /\ inbox' = << >>
              /\ \A j \in 1..Len(lines') : NL \notin { lines'[j][k] : k \in 1..Len(lines'[j]) }
              /\ Joined(lines') = WithoutNL(decode_utf8(inbox).text) ]_vars
    /\ [][ \A j \in 1..Len(lines) :
              (/\ log' # log
               /\ LastOf(log').op = "call"
               /\ LastOf(log').sig = "submap"
               /\ cur = j)
              => LastOf(log').kw = ("submap_name" :> OrNone(PayloadText(lines[j]))) ]_vars

\* the first part of "submap>>resize" was read alone and delivered as the
\* submap "re"; the second part came with a later read and is handled as a line
\* of its own
C28_Witness ==
    /\ lines = << << "size" >> >>
    /\ pc = "line"
    /\ \E i \in 1..Len(log) :
          /\ log[i].op = "call"
          /\ log[i].sig = "submap"
          /\ log[i].kw = ("submap_name" :> StrV(<< "re" >>))
    /\ \A i \in 1..Len(log) :
          log[i].op = "call" => log[i].kw # ("submap_name" :> StrV(<< "re", "size" >>))

\* C30: a read on the connected socket that the transport does not fail
\* returns: it raises nothing, leaves the socket connected, takes every byte
\* that had arrived, and the text it returns is the text of those bytes, in
\* order, none lost.
C30_ReadReturnsAllBytes ==
    [][ (pc = "read" /\ socket = "connected" /\ pc' # pc /\ exc' # "OSError")
        => /\ exc' = "none"
           /\ socket' = "connected"
           /\ inbox' = << >>
           /\ WithoutNL(decode_utf8(inbox).text) = Joined(lines')
           /\ Len(Joined(lines')) + Cardinality({ k \in 1..Len(inbox) : inbox[k] = "A9" })
                = Len(WithoutNL(inbox)) ]_vars

\* C31: a read of Window.workspace that the command socket answers gives a
\* Workspace whose id is the workspace_id of the Window when the compositor has
\* a workspace of that id, and raises ParentNotFoundException when it has
\* none; it gives neither None nor a workspace of another id.
C31_WindowWorkspaceOrParentNotFound ==
    [][ (accesses' = accesses + 1 /\ result'.op = "Window.workspace"
         /\ result'.raised # "SocketError")
        => IF held.workspace_id \in DOMAIN hyprland.workspaces
           THEN /\ result'.raised = "none"
                /\ result'.value.kind = "Workspace"
                /\ result'.value.id = held.workspace_id
           ELSE /\ result'.raised = "ParentNotFoundException"
                /\ result'.value = NoComponent ]_vars

\* the workspace of the Window the user holds was destroyed, and the read of
\* its workspace property raised ParentNotFoundException
C31_Witness ==
    /\ accesses > 0
    /\ held.kind = "Window"
    /\ held.workspace_id \notin DOMAIN hyprland.workspaces
    /\ result.op = "Window.workspace"
    /\ result.raised = "ParentNotFoundException"

\* C32: an emit of the user that has ended without an exception has called
\* exactly the registrations the list held when the emit began, once each and
\* in order, whatever the observers connected or disconnected meanwhile.
C32_EmitDeliversToRegistrationsAtStart ==
    (pc = "idle" /\ result.op = "emit" /\ result.raised = "none")
    => log = CallsOver(emitting.sig, emitting.start, emitting.kw, lineNo)

\* the registrations the running emission has yet to call
StillToCall ==
    SubSeq(observers[emitting.sig], emitting.idx, Len(observers[emitting.sig]))

\* C33: an emission whose observer calls return comes to an end: the call of an
\* observer that returns never leaves the loop where it was, with the same
\* registrations still to be called, from where it would go on for ever.
C33_EmitTerminates ==
    [][ (pc = "emit" /\ pc' = "emit" /\ log' # log) => StillToCall' # StillToCall ]_vars

\* C34: once the compositor has closed the connection while watch runs, watch
\* is eventually left.
C34_PeerCloseEndsWatch ==
    (socket = "peer_closed" /\ pc # "idle") ~> (pc = "left")

\* call i of the log is a connect that failed to establish the connection
FailedConnect(i) ==
    log[i].op = "connect" /\ log[i].before = "None" /\ ~log[i].input

\* C35: a connect that failed to establish the connection has left the socket
\* disconnected; the call made next is, when a connect, not rejected with
\* SocketError as already connected, and, when a send, wait or read, raises
\* SocketError.
C35_FailedConnectLeavesDisconnected ==
    \A i \in 1..Len(log) :
        FailedConnect(i)
        => /\ log[i].after = "None"
           /\ i < Len(log)
              => /\ log[i + 1].op = "connect" => log[i + 1].raised # "SocketError"
                 /\ log[i + 1].op \in { "send", "wait", "read" }
                    => log[i + 1].raised = "SocketError"

\* the events that have both a deprecated signal and a current signal
TwofoldEvents == DOMAIN _deprecated_signal_for_event

\* the observer calls of the log, in the order they were made
ObserverCalls == SelectSeq(log, LAMBDA e : e.op = "call")

\* C37: the observer calls of watch are made line by line, and within a line
\* every call of the deprecated signal precedes every call of the current
\* signal; once the handling of a line of an event with both signals has
\* ended with its payload decoded, the calls made for it are the observers of
\* the deprecated signal in order followed by the observers of the current
\* signal in order.
C37_DeprecatedBeforeCurrentBeforeLaterLine ==
    /\ \A i, k \in 1..Len(ObserverCalls) :
           i < k => /\ ObserverCalls[i].line <= ObserverCalls[k].line
                    /\ (/\ ObserverCalls[i].line = ObserverCalls[k].line
                        /\ ObserverCalls[k].sig \in DeprecatedSignalNames)
                       => ObserverCalls[i].sig \in DeprecatedSignalNames
    /\ \A j \in 1..Len(lines) :
           (/\ Completed(j)
            /\ IndexOf(lines[j], DELIM) # 0
            /\ LineName(lines[j]) \in TwofoldEvents
            /\ \A i \in 1..Len(log) :
                   (log[i].op = "decode" /\ log[i].line = BufferLineNo(j)) => log[i].ok)
           => LET name == LineName(lines[j])
                  old == _deprecated_signal_for_event[name]
                  calls == CallsOfLine(BufferLineNo(j))
              IN /\ Len(calls) = Len(observers[old]) + Len(observers[name])
                 /\ \A i \in 1..Len(calls) :
                        IF i <= Len(observers[old])
                        THEN calls[i].sig = old /\ calls[i].cb = observers[old][i]
                        ELSE /\ calls[i].sig = name
                             /\ calls[i].cb = observers[name][i - Len(observers[old])]

\* an observer of the deprecated signal, then an observer of the current
\* signal were called for one line, and then an observer for a later line
C37_Witness ==
    \E i, k, m \in 1..Len(ObserverCalls) :
        /\ i < k /\ k < m
        /\ ObserverCalls[i].sig \in DeprecatedSignalNames
        /\ ObserverCalls[k].sig \in TwofoldEvents
        /\ ObserverCalls[i].line = ObserverCalls[k].line
        /\ ObserverCalls[m].line > ObserverCalls[k].line

\* the user has just connected a callback and now disconnects the same one
DisconnectsTheJustConnected ==
    /\ pc = "idle" /\ pc' = "idle"
    /\ result.op = "connect" /\ result.raised = "none"
    /\ result'.op = "disconnect" /\ result'.cb = result.cb

\* the observer list before the connect that has just appended to it
BeforeConnect(sig) == SubSeq(observers[sig], 1, Len(observers[sig]) - 1)

\* C38 as stated: a disconnect of the callback that has just been connected
\* leaves the observer list as it was before the connect, order included.
C38_ConnectThenDisconnectRestores ==
    [][ DisconnectsTheJustConnected
        => \A sig \in TestSignals : observers'[sig] = BeforeConnect(sig) ]_vars

\* C38 amended: a disconnect of the callback that has just been connected
\* raises nothing; it leaves the observer list as it was before the connect
\* when that list did not hold the callback, and otherwise leaves the list
\* before the connect with its earliest registration of the callback taken out
\* and the callback added at the end.
C38_ConnectThenDisconnectMovesEarliestToEnd ==
    [][ DisconnectsTheJustConnected
        => \A sig \in TestSignals :
              LET before == BeforeConnect(sig)
                  cb == result.cb
              IN
              /\ result'.raised = "none"
              /\ Len(observers'[sig]) = Len(before)
              /\ IF IndexOf(before, cb) = 0
                 THEN observers'[sig] = before
                 ELSE observers'[sig] =
                         Append([k \in 1..(Len(before) - 1) |->
                                    IF k < IndexOf(before, cb) THEN before[k] ELSE before[k + 1]],
                                cb) ]_vars

\* a has just been connected to the list a, b, which held it already
C38_Witness ==
    /\ pc = "idle"
    /\ result = [op |-> "connect", cb |-> "a", raised |-> "none"]
    /\ observers["openwindow"] = << "a", "b", "a" >>

\* the call of thread t has ended
Ended(t) == threads.at[t] = "done"

\* C36: a send_command call that has ended has raised SocketError or has
\* received the reply to its own request and to nothing else, whatever the
\* other thread did meanwhile; once both calls have ended, _socket is None.
C36_EachCallOwnReplyOrSocketError ==
    /\ \A t \in Threads :
           Ended(t) => \/ threads.raised[t] = "SocketError"
                       \/ /\ threads.raised[t] = "none"
                          /\ threads.response[t] = << Request(t) >>
    /\ (\A t \in Threads : Ended(t)) => socket = "None"

====
